---- MODULE Spec2Model ----
(***************************************************************************)
(* Model of the customer analysis pipeline of Final-Project-CS5001:        *)
(*   FreRecAnalysis.py  (FrequencyRecency: identity, visits, recency,      *)
(*                       segmentation)                                     *)
(*   MVAnalysis.py      (MonetaryValue: totals, ranking, action plan)      *)
(*                                                                         *)
(* A pandas DataFrame is a record [cols, rows]: cols is the set of column  *)
(* names and rows a sequence of functions from column names to cells.      *)
(* A cell is a tagged record: a Python str (a sequence of one-character    *)
(* strings), an int, a float with integral value, NaN, a Timestamp or NaT. *)
(***************************************************************************)
EXTENDS Integers, Sequences, FiniteSets, TLC

VARIABLES
    all_data,             \* the table handed to a FrequencyRecency method
    id_result,            \* what create_customer_id returned
    frequency_data,       \* categorize_customers: parameter frequency_data
    recency_data,         \* categorize_customers: parameter recency_data
    current_month,        \* FrequencyRecency.current_month
    customer_categories,  \* what categorize_customers returned
    mv_all_data,          \* MonetaryValue.all_data
    monetary_data,        \* MonetaryValue.monetary_data
    action_plan,          \* MonetaryValue.action_plan
    top_percent,          \* argument of the last identify_top_spending_customers
    top_customers,        \* what the last identify_top_spending_customers returned
    error,                \* exception raised by the last call, "none" if it returned
    ingested,             \* the caller's table as it was when it was ingested
    sheets,               \* what the Google Sheet gives for each requested worksheet
    printed,              \* what FrequencyRecency.main printed, "" before it ran
    report_all_data,      \* CustomerAnalysisReport.all_data
    pc                    \* the statement a run of the report's main() is at

vars == <<all_data, id_result, frequency_data, recency_data, current_month,
          customer_categories, mv_all_data, monetary_data, action_plan,
          top_percent, top_customers, error, ingested, sheets,
          printed, report_all_data, pc>>

fr_vars == <<all_data, id_result>>
cat_vars == <<frequency_data, recency_data, current_month, customer_categories>>
mv_vars == <<mv_all_data, monetary_data, action_plan, top_percent, top_customers>>
run_vars == <<ingested, sheets, printed, report_all_data, pc>>

----------------------------------------------------------------------------
(* Bounds of the model *)

MaxIdRows == 2     \* rows of a table given to create_customer_id
MaxVisitRows == 3  \* rows of the visit records given to categorize_customers
MaxMVRows == 3     \* rows of an enumerated table given to MonetaryValue
MaxTopCustomers == 50  \* customers of a table of one-transaction customers
MaxFRRows == 3     \* rows of a table given to calculate_monthly_visits
MaxWorksheets == 2 \* worksheets requested by a run
MaxRunRows == 2    \* rows of the identity-resolved table of a report
MaxPipeWorksheets == 2  \* worksheets of a stepwise run of the report's main()

----------------------------------------------------------------------------
(* Python values *)

\* Python None / an attribute that has not been set
None == [set |-> FALSE]

StrCell(s) == [t |-> "str", v |-> s]
IntCell(n) == [t |-> "int", v |-> n]
FloatCell(n) == [t |-> "float", v |-> n]
NaNCell == [t |-> "nan"]
NaTCell == [t |-> "nat"]
TsCell(ts) == [t |-> "ts", v |-> ts]

DigitChars == <<"0", "1", "2", "3", "4", "5", "6", "7", "8", "9">>

Digits == {DigitChars[i] : i \in 1..10}

\* str.isdigit(): a non-empty string all of whose characters are digits
IsDigit(s) == Len(s) > 0 /\ \A i \in 1..Len(s) : s[i] \in Digits

RECURSIVE NatToStr(_)
NatToStr(n) == IF n < 10 THEN <<DigitChars[n + 1]>>
               ELSE NatToStr(n \div 10) \o <<DigitChars[(n % 10) + 1]>>

\* str(n) for a Python int
IntToStr(n) == IF n < 0 THEN <<"-">> \o NatToStr(0 - n) ELSE NatToStr(n)

\* zero-padded decimal of width 2 and 4 (Timestamp.__str__)
Pad2(n) == <<DigitChars[((n \div 10) % 10) + 1], DigitChars[(n % 10) + 1]>>
Pad4(n) == Pad2(n \div 100) \o Pad2(n % 100)

\* str(Timestamp): "YYYY-MM-DD HH:MM:SS"
TimestampToStr(ts) ==
    Pad4(ts.Y) \o <<"-">> \o Pad2(ts.M) \o <<"-">> \o Pad2(ts.D) \o <<" ">>
    \o Pad2(ts.h) \o <<":">> \o Pad2(ts.m) \o <<":", "0", "0">>

\* str(x) / format(x, "") of a cell value, as an f-string or astype(str) gives it
Format(c) ==
    CASE c.t = "str" -> c.v
      [] c.t = "int" -> IntToStr(c.v)
      [] c.t = "float" -> IntToStr(c.v) \o <<".", "0">>
      [] c.t = "nan" -> <<"n", "a", "n">>
      [] c.t = "nat" -> <<"N", "a", "T">>
      [] c.t = "ts" -> TimestampToStr(c.v)

\* pd.notna(x)
notna(c) == c.t \notin {"nan", "nat"}

\* Series.fillna(""): a missing value becomes the empty string
fillna_empty(c) == IF notna(c) THEN c ELSE StrCell(<<>>)

\* Series.astype(str)
astype_str(c) == StrCell(Format(c))

----------------------------------------------------------------------------
(* DataFrames *)

DataFrame(cols, rows) == [set |-> TRUE, cols |-> cols, rows |-> rows]

\* df[name] = values : add or replace a column, row by row
SetColumn(df, name, values) ==
    DataFrame(df.cols \cup {name},
              [i \in 1..Len(df.rows) |->
                  [k \in df.cols \cup {name} |->
                      IF k = name THEN values[i] ELSE df.rows[i][k]]])

\* a raised exception instead of a returned value
Raise(kind) == [set |-> FALSE, raised |-> kind]

Raised(r) == "raised" \in DOMAIN r

----------------------------------------------------------------------------
(* FrequencyRecency.create_customer_id *)

\* the lambda of lines 115-117, applied to one row that already has the
\* column last_4_card_digits; a column the row lacks raises KeyError
\* the lambda without the isdigit() test: any non-empty suffix is the identity
customer_id_of_row_any_suffix(x) ==
    IF notna(x["last_4_card_digits"]) /\ Len(x["last_4_card_digits"].v) > 0
    THEN x["last_4_card_digits"]
    ELSE IF {"Paid Date", "Amount", "Type"} \subseteq DOMAIN x
         THEN StrCell(Format(x["Paid Date"]) \o <<"|">> \o Format(x["Amount"])
                      \o <<"|">> \o Format(x["Type"]))
         ELSE Raise("KeyError")

customer_id_of_row(x) ==
    IF notna(x["last_4_card_digits"]) /\ IsDigit(x["last_4_card_digits"].v)
    THEN x["last_4_card_digits"]
    ELSE IF {"Paid Date", "Amount", "Type"} \subseteq DOMAIN x
         THEN StrCell(Format(x["Paid Date"]) \o <<"|">> \o Format(x["Amount"])
                      \o <<"|">> \o Format(x["Type"]))
         ELSE Raise("KeyError")

create_customer_id(df) ==
    IF "Last 4 Card Digits" \notin df.cols
    THEN Raise("KeyError")
    ELSE LET n == Len(df.rows)
             withDigits ==
                 SetColumn(df, "last_4_card_digits",
                     [i \in 1..n |->
                         astype_str(fillna_empty(df.rows[i]["Last 4 Card Digits"]))])
             ids == [i \in 1..n |-> customer_id_of_row(withDigits.rows[i])]
         IN  IF \E i \in 1..n : Raised(ids[i])
             THEN Raise("KeyError")
             ELSE SetColumn(withDigits, "Customer ID", ids)

----------------------------------------------------------------------------
(* Inputs of create_customer_id: tables of 1..MaxIdRows raw transactions,  *)
(* as gspread delivers them (str, int, blank) or as pd.concat and the      *)
(* tests leave them (NaN, float, Timestamp), possibly lacking one column.  *)

RawColumns == {"Paid Date", "Last 4 Card Digits", "Amount", "Type"}

CardCells == {StrCell(<<"1", "2">>), StrCell(<<>>), StrCell(<<"1", "a">>),
              IntCell(12), NaNCell}

DateCells == {StrCell(<<"1", "0", "/", "0", "1", "/", "2", "4", " ",
                        "1", "0", ":", "0", "0", " ", "A", "M">>),
              TsCell([Y |-> 2024, M |-> 8, D |-> 20, h |-> 17, m |-> 0]),
              NaNCell}

AmountCells == {StrCell(<<"7", "5", ".", "0", "0">>), IntCell(75)}

TypeCells == {StrCell(<<"C", "a", "s", "h">>),
              StrCell(<<"C", "r", "e", "d", "i", "t">>)}

\* the rows over a set of columns
RowsOver(cols) ==
    {[k \in cols |-> CASE k = "Paid Date" -> d
                      [] k = "Last 4 Card Digits" -> c
                      [] k = "Amount" -> a
                      [] k = "Type" -> ty] :
        d \in DateCells, c \in CardCells, a \in AmountCells, ty \in TypeCells}

\* the column sets: all four columns, or one of them missing
IdColumnSets == {RawColumns} \cup {RawColumns \ {c} : c \in RawColumns}

InitId ==
    /\ \E cols \in IdColumnSets, n \in 1..MaxIdRows :
          \E rows \in [1..n -> RowsOver(cols)] :
             all_data = DataFrame(cols, rows)
    /\ id_result = None
    /\ error = "none"
    /\ ingested = all_data
    /\ sheets = <<>> /\ printed = "" /\ report_all_data = None /\ pc = "none"
    /\ frequency_data = None /\ recency_data = None /\ current_month = 0
    /\ customer_categories = None
    /\ mv_all_data = None /\ monetary_data = None /\ action_plan = None
    /\ top_percent = 0 /\ top_customers = None

\* result = self.frequency_recency.create_customer_id(all_data)
CreateCustomerId ==
    /\ id_result = None /\ error = "none"
    /\ LET r == create_customer_id(all_data)
       IN  IF Raised(r)
           THEN id_result' = None /\ error' = r.raised
           ELSE id_result' = r /\ error' = "none"
    /\ UNCHANGED <<all_data, cat_vars, mv_vars, run_vars>>

NextId == CreateCustomerId

SpecId == InitId /\ [][NextId]_vars

----------------------------------------------------------------------------
(* FrequencyRecency.categorize_customers *)

Labels == {"Active Regular", "Inactive Regular", "Active Occasional",
           "Inactive Occasional"}

\* a returned dict
Dict(counts) == [set |-> TRUE, counts |-> counts]

\* the dict of lines 188-193 with a key left out
customer_categories_init_three_keys ==
    [k \in Labels \ {"Inactive Occasional"} |-> 0]

\* customer_categories = {...: 0} of lines 188-193
customer_categories_init == [k \in Labels |-> 0]

\* the rows of right that match a left row on the column `on`
Matches(l, right, on) == SelectSeq(right.rows, LAMBDA r : r[on] = l[on])

\* an inner join: a left row without a match is dropped
RECURSIVE merge_inner_rows(_, _, _, _)
merge_inner_rows(left, right, on, i) ==
    IF i > Len(left.rows) THEN <<>>
    ELSE LET l == left.rows[i]
             ms == Matches(l, right, on)
         IN  [j \in 1..Len(ms) |->
                  [k \in left.cols \cup right.cols |->
                      IF k \in left.cols THEN l[k] ELSE ms[j][k]]]
             \o merge_inner_rows(left, right, on, i + 1)

\* pd.merge(left, right, on=on, how="left"), rows i.. of left: every left row
\* is kept, in order, once per matching right row, and once with missing
\* right columns (NaT for a datetime column) when nothing matches
RECURSIVE merge_left_rows(_, _, _, _)
merge_left_rows(left, right, on, i) ==
    IF i > Len(left.rows) THEN <<>>
    ELSE LET l == left.rows[i]
             ms == Matches(l, right, on)
             joined ==
                 IF Len(ms) = 0
                 THEN <<[k \in left.cols \cup right.cols |->
                            IF k \in left.cols THEN l[k] ELSE NaTCell]>>
                 ELSE [j \in 1..Len(ms) |->
                          [k \in left.cols \cup right.cols |->
                              IF k \in left.cols THEN l[k] ELSE ms[j][k]]]
         IN  joined \o merge_left_rows(left, right, on, i + 1)

merge_left(left, right, on) ==
    DataFrame(left.cols \cup right.cols, merge_left_rows(left, right, on, 1))

RECURSIVE SumVisits(_, _, _)
SumVisits(rows, id, i) ==
    IF i > Len(rows) THEN 0
    ELSE (IF rows[i]["Customer ID"] = id THEN rows[i]["Visits"].v ELSE 0)
         + SumVisits(rows, id, i + 1)

\* the Visits of the row itself, not summed over the customer's rows
total_visits_of_row(data, i) == data.rows[i]["Visits"]

\* data.groupby("Customer ID")["Visits"].transform("sum") for row i
total_visits(data, i) ==
    IntCell(SumVisits(data.rows, data.rows[i]["Customer ID"], 1))

\* Series.dt.month of one value: NaN for NaT
dt_month(c) == IF c.t = "ts" THEN IntCell(c.v.M) ELSE NaNCell

\* x == n for a cell and a Python int: NaN equals nothing
eq_int(c, n) == c.t = "int" /\ c.v = n

\* the body of the loop of lines 199-209 for one row
categorize_row(cats, row, month) ==
    LET label ==
            IF row["Total Visits"].v > 6
            THEN IF eq_int(row["Recency Month"], month)
                 THEN "Active Regular" ELSE "Inactive Regular"
            ELSE IF eq_int(row["Recency Month"], month)
                 THEN "Active Occasional" ELSE "Inactive Occasional"
    IN  [cats EXCEPT ![label] = @ + 1]

RECURSIVE categorize_rows(_, _, _, _)
categorize_rows(cats, rows, month, i) ==
    IF i > Len(rows) THEN cats
    ELSE categorize_rows(categorize_row(cats, rows[i], month), rows, month, i + 1)

\* a column on which the .dt accessor works
is_datetime(df, col) == \A i \in 1..Len(df.rows) : df.rows[i][col].t \in {"ts", "nat"}

categorize_customers(freq, rec, month) ==
    IF "Customer ID" \notin freq.cols \/ "Customer ID" \notin rec.cols
    THEN Raise("KeyError")
    ELSE LET merged == merge_left(freq, rec, "Customer ID")
             n == Len(merged.rows)
             withTotal == SetColumn(merged, "Total Visits",
                                    [i \in 1..n |-> total_visits(merged, i)])
         IN  IF ~is_datetime(withTotal, "Recency")
             THEN Raise("AttributeError")
             ELSE LET data == SetColumn(withTotal, "Recency Month",
                                 [i \in 1..n |-> dt_month(withTotal.rows[i]["Recency"])])
                  IN  Dict(categorize_rows(customer_categories_init, data.rows,
                                           month, 1))

----------------------------------------------------------------------------
(* Inputs of categorize_customers: visit records as calculate_monthly_visits *)
(* returns them (one row per customer and month, sorted by both, Visits at  *)
(* least 1) and recency records as calculate_recency returns them (at most  *)
(* one row per customer, sorted, a Timestamp or NaT).                       *)

Customers == <<StrCell(<<"1", "2">>), StrCell(<<"3", "4">>)>>

VisitMonths == <<9, 10>>

VisitCounts == {1, 6, 7}

ReferenceMonths == {9, 10, 11}

RecencyCells == {NaTCell,
                 TsCell([Y |-> 2024, M |-> 9, D |-> 15, h |-> 14, m |-> 0]),
                 TsCell([Y |-> 2024, M |-> 10, D |-> 1, h |-> 10, m |-> 0])}

\* the (customer, month) keys in the order groupby leaves them
VisitKeys == [i \in 1..(Len(Customers) * Len(VisitMonths)) |->
                 [c |-> ((i - 1) \div Len(VisitMonths)) + 1,
                  m |-> ((i - 1) % Len(VisitMonths)) + 1]]

\* the visit records holding the keys with a non-zero count in f
VisitRecords(f) ==
    LET present == SelectSeq([i \in 1..Len(VisitKeys) |-> i], LAMBDA i : f[i] > 0)
    IN  DataFrame({"Customer ID", "Month", "Visits"},
            [j \in 1..Len(present) |->
                [k \in {"Customer ID", "Month", "Visits"} |->
                    CASE k = "Customer ID" -> Customers[VisitKeys[present[j]].c]
                      [] k = "Month" -> IntCell(VisitMonths[VisitKeys[present[j]].m])
                      [] k = "Visits" -> IntCell(f[present[j]])]])

\* no recency row for a customer
Absent == [t |-> "absent"]

\* the recency records holding the customers that g does not map to Absent
RecencyRecords(g) ==
    LET present == SelectSeq([i \in 1..Len(Customers) |-> i], LAMBDA i : g[i].t # "absent")
    IN  DataFrame({"Customer ID", "Recency"},
            [j \in 1..Len(present) |->
                [k \in {"Customer ID", "Recency"} |->
                    IF k = "Customer ID" THEN Customers[present[j]]
                    ELSE g[present[j]]]])

InitCat ==
    /\ \E f \in [1..Len(VisitKeys) -> VisitCounts \cup {0}] :
          /\ Cardinality({i \in 1..Len(VisitKeys) : f[i] > 0}) <= MaxVisitRows
          /\ frequency_data = VisitRecords(f)
    /\ \E g \in [1..Len(Customers) -> RecencyCells \cup {Absent}] :
          recency_data = RecencyRecords(g)
    /\ current_month \in ReferenceMonths
    /\ customer_categories = None
    /\ error = "none"
    /\ all_data = None /\ id_result = None
    /\ mv_all_data = None /\ monetary_data = None /\ action_plan = None
    /\ top_percent = 0 /\ top_customers = None
    /\ ingested = None
    /\ sheets = <<>> /\ printed = "" /\ report_all_data = None /\ pc = "none"

\* categories = self.frequency_recency.categorize_customers(monthly_visits, recency_data)
CategorizeCustomers ==
    /\ customer_categories = None /\ error = "none"
    /\ LET r == categorize_customers(frequency_data, recency_data, current_month)
       IN  IF Raised(r)
           THEN customer_categories' = None /\ error' = r.raised
           ELSE customer_categories' = r /\ error' = "none"
    /\ UNCHANGED <<frequency_data, recency_data, current_month, fr_vars, mv_vars,
                   run_vars>>

NextCat == CategorizeCustomers

SpecCat == InitCat /\ [][NextCat]_vars

----------------------------------------------------------------------------
(* Python str ordering, as groupby uses it to order its groups *)

\* the characters of the model in ASCII order
AsciiOrder == <<" ", "-", ".", "/", "0", "1", "2", "3", "4", "5", "6", "7",
                "8", "9", ":", "A", "C", "M", "N", "P", "T", "a", "b", "c",
                "d", "e", "h", "i", "n", "r", "s", "t", "|">>

Ord(ch) == CHOOSE i \in 1..Len(AsciiOrder) : AsciiOrder[i] = ch

\* a < b for two Python strings: at the first place where they differ, a
\* has ended or has the smaller character
StrLess(a, b) ==
    \E k \in 1..Len(b) :
        /\ k <= Len(a) + 1
        /\ \A i \in 1..(k - 1) : a[i] = b[i]
        /\ \/ k = Len(a) + 1
           \/ Ord(a[k]) < Ord(b[k])

\* the str cells of a set in ascending order: each is placed after the
\* ones smaller than it
SortedStrs(S) ==
    LET placed == {<<Cardinality({y \in S : StrLess(y.v, x.v)}) + 1, x>> : x \in S}
    IN  [pos \in 1..Cardinality(S) |-> (CHOOSE p \in placed : p[1] = pos)[2]]

----------------------------------------------------------------------------
(* MonetaryValue.calculate_monetary_value *)

\* the decimal value of a string of digits
RECURSIVE DigitsToNat(_)
DigitsToNat(s) ==
    IF Len(s) = 0 THEN 0
    ELSE DigitsToNat(SubSeq(s, 1, Len(s) - 1)) * 10 + (Ord(s[Len(s)]) - Ord("0"))

\* an unsigned decimal literal: digits, optionally followed by "." and
\* fraction digits (the amounts of the model have only zeros there)
IsDecimal(s) ==
    \E k \in 1..Len(s) :
        /\ IsDigit(SubSeq(s, 1, k))
        /\ \/ k = Len(s)
           \/ /\ s[k + 1] = "."
              /\ \A i \in (k + 2)..Len(s) : s[i] = "0"

DecimalValue(s) ==
    LET k == CHOOSE j \in 1..Len(s) :
                 IsDigit(SubSeq(s, 1, j)) /\ (j = Len(s) \/ s[j + 1] = ".")
    IN  DigitsToNat(SubSeq(s, 1, k))

\* pd.to_numeric(x, errors="coerce") of one value: a number stays, a string
\* is parsed, anything that does not parse becomes NaN
to_numeric(c) ==
    CASE c.t = "int" -> c
      [] c.t = "float" -> c
      [] c.t = "str" ->
            IF IsDecimal(c.v) THEN FloatCell(DecimalValue(c.v))
            ELSE IF Len(c.v) > 1 /\ c.v[1] = "-" /\ IsDecimal(Tail(c.v))
                 THEN FloatCell(0 - DecimalValue(Tail(c.v)))
                 ELSE NaNCell
      [] OTHER -> NaNCell

\* the groups of groupby("Customer ID"), taken only from the rows whose
\* Amount is a number
group_keys_numeric_rows(df) ==
    SortedStrs({df.rows[i]["Customer ID"] :
                   i \in {j \in 1..Len(df.rows) : notna(df.rows[j]["Amount"])}})

\* the groups of groupby("Customer ID"): its distinct values in sorted order
group_keys(df) ==
    SortedStrs({df.rows[i]["Customer ID"] : i \in 1..Len(df.rows)})

\* groupby(...)["Amount"].sum() for one group over the rows lo..hi: missing
\* values are skipped, and a group without numbers sums to 0
RECURSIVE group_sum(_, _, _, _)
group_sum(rows, id, lo, hi) ==
    IF lo > hi THEN 0
    ELSE IF lo = hi
    THEN IF rows[lo]["Customer ID"] = id /\ notna(rows[lo]["Amount"])
         THEN rows[lo]["Amount"].v ELSE 0
    ELSE group_sum(rows, id, lo, (lo + hi) \div 2)
         + group_sum(rows, id, ((lo + hi) \div 2) + 1, hi)

Total(row) == row["Total Monetary Value"].v

\* the descending arrangement that keeps equal totals in their order: a
\* row is placed after the rows that go before it
StableDescending(rows) ==
    LET indexed == {<<i, rows[i]>> : i \in 1..Len(rows)}
        before(p) == {q \in indexed : \/ Total(q[2]) > Total(p[2])
                                      \/ Total(q[2]) = Total(p[2]) /\ q[1] < p[1]}
        placed == {<<Cardinality(before(p)) + 1, p[2]>> : p \in indexed}
    IN  [pos \in 1..Len(rows) |-> (CHOOSE p \in placed : p[1] = pos)[2]]

\* the rows left in the order of the groups
sort_values_not_sorted(rows) == {rows}

\* sort_values(by="Total Monetary Value", ascending=False) with the default
\* kind="quicksort", which is not a stable sort: the results are the
\* descending arrangements of the rows, equal totals in any order
sort_values_descending(rows) ==
    LET n == Len(rows)
        base == StableDescending(rows)
    IN  IF \A i \in 1..(n - 1) : Total(base[i]) # Total(base[i + 1])
        THEN {base}
        ELSE {[i \in 1..n |-> base[q[i]]] :
                 q \in {f \in [1..n -> 1..n] :
                           /\ \A i, j \in 1..n : i # j => f[i] # f[j]
                           /\ \A i \in 1..n : Total(base[f[i]]) = Total(base[i])}}

\* self.all_data["Amount"] = pd.to_numeric(self.all_data["Amount"], errors="coerce")
coerce_amount(df) ==
    SetColumn(df, "Amount", [i \in 1..Len(df.rows) |-> to_numeric(df.rows[i]["Amount"])])

\* groupby("Customer ID")["Amount"].sum().reset_index(name="Total Monetary Value")
grouped_totals(df) ==
    LET keys == group_keys(df)
    IN  [g \in 1..Len(keys) |->
            ("Customer ID" :> keys[g])
            @@ ("Total Monetary Value" :>
                    FloatCell(group_sum(df.rows, keys[g], 1, Len(df.rows))))]

----------------------------------------------------------------------------
(* MonetaryValue.generate_action_plan and _assign_action *)

\* the thresholds with 1000 counted as VIP
assign_action_vip_from_1000(value) ==
    IF value >= 1000 THEN "VIP Treatment: Personalized Offers"
    ELSE IF 500 <= value /\ value < 1000 THEN "Upselling: Discounts on Larger Purchases"
    ELSE IF 100 <= value /\ value < 500 THEN "Retention: Loyalty Rewards"
    ELSE "Engagement: Marketing Emails or Social Media"

assign_action(value) ==
    IF value > 1000 THEN "VIP Treatment: Personalized Offers"
    ELSE IF 500 <= value /\ value <= 1000 THEN "Upselling: Discounts on Larger Purchases"
    ELSE IF 100 <= value /\ value < 500 THEN "Retention: Loyalty Rewards"
    ELSE "Engagement: Marketing Emails or Social Media"

\* the action plan with its rows in ascending order of total
generate_action_plan_ascending(md) ==
    DataFrame(md.cols \cup {"Action"},
        [i \in 1..Len(md.rows) |->
            [k \in md.cols \cup {"Action"} |->
                IF k = "Action" THEN assign_action(Total(md.rows[Len(md.rows) + 1 - i]))
                ELSE md.rows[Len(md.rows) + 1 - i][k]]])

\* self.action_plan = self.monetary_data.copy() with the column Action added
generate_action_plan(md) ==
    DataFrame(md.cols \cup {"Action"},
        [i \in 1..Len(md.rows) |->
            [k \in md.cols \cup {"Action"} |->
                IF k = "Action" THEN assign_action(Total(md.rows[i]))
                ELSE md.rows[i][k]]])

----------------------------------------------------------------------------
(* MonetaryValue.identify_top_spending_customers                           *)
(*                                                                         *)
(* top_n = int(len(self.monetary_data) * (top_percent / 100)) is computed  *)
(* in Python floats (IEEE 754 binary64): a quotient and a product, each    *)
(* rounded to 53 significant bits, to nearest, ties to even.  A positive   *)
(* float is [m, exp]: the 53-bit significand as four limbs <<m1, m2, m3,   *)
(* m4>> = m1 * 2^48 + m2 * 2^32 + m3 * 2^16 + m4 with 16 <= m1 < 32, and   *)
(* the exponent of its last bit; 0.0 is FloatZero.                         *)

FloatZero == [zero |-> TRUE]

PowersOfTwo == <<1, 2, 4, 8, 16, 32, 64, 128, 256, 512, 1024, 2048, 4096,
                 8192, 16384, 32768, 65536>>

Pow2(k) == PowersOfTwo[k + 1]

\* significand + 1
IncrementLimbs(m) ==
    IF m[4] < 65535 THEN <<m[1], m[2], m[3], m[4] + 1>>
    ELSE IF m[3] < 65535 THEN <<m[1], m[2], m[3] + 1, 0>>
    ELSE IF m[2] < 65535 THEN <<m[1], m[2] + 1, 0, 0>>
    ELSE <<m[1] + 1, 0, 0, 0>>

\* the float with significand m and exponent exp, rounded up when roundUp;
\* a significand that reaches 2^53 becomes 2^52 with the next exponent
Rounded(m, exp, roundUp) ==
    IF ~roundUp THEN [zero |-> FALSE, m |-> m, exp |-> exp]
    ELSE LET inc == IncrementLimbs(m)
         IN  IF inc[1] = 32
             THEN [zero |-> FALSE, m |-> <<16, 0, 0, 0>>, exp |-> exp + 1]
             ELSE [zero |-> FALSE, m |-> inc, exp |-> exp]

\* a / d as a float, for ints 0 <= a < 2 * d and d < 2^15: long division,
\* 5 bits from the leading 1, then three times 16 bits
float_div(a, d) ==
    IF a = 0 THEN FloatZero
    ELSE LET lead == CHOOSE k \in 0..15 :
                         /\ a * Pow2(k) >= d
                         /\ k > 0 => a * Pow2(k - 1) < d
             n1 == a * Pow2(lead + 4)
             m1 == n1 \div d
             r1 == n1 % d
             m2 == (r1 * 65536) \div d
             r2 == (r1 * 65536) % d
             m3 == (r2 * 65536) \div d
             r3 == (r2 * 65536) % d
             m4 == (r3 * 65536) \div d
             r4 == (r3 * 65536) % d
         IN  Rounded(<<m1, m2, m3, m4>>, 0 - (lead + 52),
                     2 * r4 > d \/ (2 * r4 = d /\ m4 % 2 = 1))

\* n * x as a float, for an int 0 <= n < 2^14 and a float x >= 0: the exact
\* product limb by limb, then the bits beyond 53 rounded away
float_mul_int(n, x) ==
    IF n = 0 \/ x.zero THEN FloatZero
    ELSE LET t4 == x.m[4] * n
             t3 == x.m[3] * n + (t4 \div 65536)
             t2 == x.m[2] * n + (t3 \div 65536)
             t1 == x.m[1] * n + (t2 \div 65536)
             l4 == t4 % 65536
             l3 == t3 % 65536
             l2 == t2 % 65536
             extra == CHOOSE k \in 0..15 : 16 * Pow2(k) <= t1 /\ t1 < 32 * Pow2(k)
         IN  IF extra = 0
             THEN [zero |-> FALSE, m |-> <<t1, l2, l3, l4>>, exp |-> x.exp]
             ELSE LET low == Pow2(extra)
                      up == Pow2(16 - extra)
                      m1 == t1 \div low
                      m2 == (t1 % low) * up + (l2 \div low)
                      m3 == (l2 % low) * up + (l3 \div low)
                      m4 == (l3 % low) * up + (l4 \div low)
                      rest == l4 % low
                      half == Pow2(extra - 1)
                  IN  Rounded(<<m1, m2, m3, m4>>, x.exp + extra,
                              rest > half \/ (rest = half /\ m4 % 2 = 1))

\* int(x) for a float 0 <= x < 2^20: the bits above the binary point
float_to_int(x) ==
    IF x.zero THEN 0
    ELSE LET shift == 0 - x.exp
         IN  IF shift >= 53 THEN 0
             ELSE IF shift >= 48 THEN x.m[1] \div Pow2(shift - 48)
             ELSE x.m[1] * Pow2(48 - shift) + (x.m[2] \div Pow2(shift - 32))


\* top_n = int(len(self.monetary_data) * (top_percent / 100))
top_n(len, percent) == float_to_int(float_mul_int(len, float_div(percent, 100)))

\* DataFrame.head(n), n >= 0
head(df, n) ==
    DataFrame(df.cols, SubSeq(df.rows, 1, IF n < Len(df.rows) THEN n ELSE Len(df.rows)))

----------------------------------------------------------------------------
(* The MonetaryValue object.  It is built on a copy of the caller's table, *)
(* which has the column Customer ID: either up to MaxMVRows transactions   *)
(* of two customers with numeric and other amounts, or one transaction    *)
(* each for 10, 20, ... up to MaxTopCustomers customers with different     *)
(* amounts.                                                                *)

MVCustomers == {StrCell(<<"C", "1">>), StrCell(<<"C", "2">>)}

MVAmounts == {IntCell(500), IntCell(0 - 1),
              StrCell(<<"a", "b", "c">>), StrCell(<<"7", "5", ".", "0", "0">>)}

MVRows == {[k \in {"Customer ID", "Amount"} |-> IF k = "Customer ID" THEN c ELSE a] :
              c \in MVCustomers, a \in MVAmounts}

\* customers C1..Cn with one transaction each, customer i spending 25 * i
OneTransactionEach(n) ==
    DataFrame({"Customer ID", "Amount"},
        [i \in 1..n |->
            [k \in {"Customer ID", "Amount"} |->
                IF k = "Customer ID" THEN StrCell(<<"C">> \o NatToStr(i))
                ELSE IntCell(25 * i)]])

TopPercents == {0, 10, 29, 40, 50, 58, 70, 100}

InitMV ==
    /\ \/ \E n \in 0..MaxMVRows : \E rows \in [1..n -> MVRows] :
             all_data = DataFrame({"Customer ID", "Amount"}, rows)
       \/ \E n \in {m \in (MaxMVRows + 1)..MaxTopCustomers : m % 10 = 0} :
             all_data = OneTransactionEach(n)
    /\ mv_all_data = all_data
    /\ ingested = all_data
    /\ sheets = <<>> /\ printed = "" /\ report_all_data = None /\ pc = "none"
    /\ monetary_data = None /\ action_plan = None
    /\ top_percent = 0 /\ top_customers = None
    /\ error = "none"
    /\ id_result = None
    /\ frequency_data = None /\ recency_data = None /\ current_month = 0
    /\ customer_categories = None

\* an exception that does not say what is missing
ValueErrorUnnamed == "ValueError"

\* raise ValueError("Monetary value data has not been calculated. Call
\* calculate_monetary_value() first.")
ValueErrorNotCalculated ==
    "ValueError: Monetary value data has not been calculated. Call calculate_monetary_value() first."

\* self.monetary_value.calculate_monetary_value().  sort_values is a
\* function of its input: when the arrangement of the call before is one
\* of the arrangements of the totals of this call, the totals are the same
\* rows in the same group order and the sort arranges them as before.
CalculateMonetaryValue ==
    LET coerced == coerce_amount(mv_all_data)
        arrangements == sort_values_descending(grouped_totals(coerced))
    IN  /\ mv_all_data' = coerced
        /\ \E sorted \in arrangements :
              /\ (monetary_data.set /\ monetary_data.rows \in arrangements)
                    => sorted = monetary_data.rows
              /\ monetary_data' = DataFrame({"Customer ID", "Total Monetary Value"}, sorted)
        /\ top_customers' = None
        /\ error' = "none"
        /\ UNCHANGED <<action_plan, top_percent, fr_vars, cat_vars, run_vars>>

\* self.monetary_value.generate_action_plan()
GenerateActionPlan ==
    /\ IF monetary_data = None
       THEN error' = ValueErrorNotCalculated /\ UNCHANGED action_plan
       ELSE error' = "none" /\ action_plan' = generate_action_plan(monetary_data)
    /\ UNCHANGED <<mv_all_data, monetary_data, top_percent, top_customers,
                   fr_vars, cat_vars, run_vars>>

\* top_customers = self.monetary_value.identify_top_spending_customers(top_percent=p)
IdentifyTopSpendingCustomers ==
    \E p \in TopPercents :
        /\ IF monetary_data = None
           THEN error' = ValueErrorNotCalculated /\ UNCHANGED <<top_percent, top_customers>>
           ELSE /\ error' = "none"
                /\ top_percent' = p
                /\ top_customers' = head(monetary_data, top_n(Len(monetary_data.rows), p))
        /\ UNCHANGED <<mv_all_data, monetary_data, action_plan, fr_vars, cat_vars,
                       run_vars>>

\* raise ValueError("Action plan has not been generated. Call
\* generate_action_plan() first.")
ValueErrorNoActionPlan ==
    "ValueError: Action plan has not been generated. Call generate_action_plan() first."

\* self.monetary_value.visualize_action_plans(): without an action plan it
\* raises; with one it draws the bar chart of the Action counts and changes
\* no field of the object
VisualizeActionPlans ==
    /\ error' = IF action_plan = None THEN ValueErrorNoActionPlan ELSE "none"
    /\ UNCHANGED <<mv_all_data, monetary_data, action_plan, top_percent, top_customers,
                   fr_vars, cat_vars, run_vars>>

NextMV ==
    \/ CalculateMonetaryValue
    \/ GenerateActionPlan
    \/ IdentifyTopSpendingCustomers
    \/ VisualizeActionPlans

SpecMV == InitMV /\ [][NextMV]_vars

----------------------------------------------------------------------------
(* calculate_monetary_value on amounts with cents.  to_numeric leaves the  *)
(* column as float64 and groupby(...).sum() adds each group's values in    *)
(* row order in binary64 arithmetic with a running compensation (pandas'   *)
(* group_sum: y = val - comp; t = sum + y; comp = t - sum - y; sum = t),   *)
(* every difference and sum rounded to 53 significant bits, to nearest,    *)
(* ties to even.  The amounts are 0.01 .. 1.99 and a group has few rows,   *)
(* so every value that occurs is a whole multiple of 2^UnitExp below 16:   *)
(* a float64 is [neg, k], its sign and its magnitude in that unit as four  *)
(* limbs <<k1, k2, k3, k4>> = k1 * 2^48 + k2 * 2^32 + k3 * 2^16 + k4.      *)

UnitExp == 0 - 59

LimbsZero == <<0, 0, 0, 0>>

Float64Zero == [neg |-> FALSE, k |-> LimbsZero]

LimbsLess(a, b) ==
    \E i \in 1..4 : a[i] < b[i] /\ \A j \in 1..(i - 1) : a[j] = b[j]

\* a + b below 2^64
LimbsAdd(a, b) ==
    LET s4 == a[4] + b[4]
        s3 == a[3] + b[3] + (s4 \div 65536)
        s2 == a[2] + b[2] + (s3 \div 65536)
        s1 == a[1] + b[1] + (s2 \div 65536)
    IN  <<s1, s2 % 65536, s3 % 65536, s4 % 65536>>

\* a - b for a >= b
LimbsSub(a, b) ==
    LET d4 == a[4] - b[4]
        d3 == a[3] - b[3] - (IF d4 < 0 THEN 1 ELSE 0)
        d2 == a[2] - b[2] - (IF d3 < 0 THEN 1 ELSE 0)
        d1 == a[1] - b[1] - (IF d2 < 0 THEN 1 ELSE 0)
        limb(d) == IF d < 0 THEN d + 65536 ELSE d
    IN  <<d1, limb(d2), limb(d3), limb(d4)>>

\* the number of bits of a, 0 for 0
BitLength(a) ==
    IF a = LimbsZero THEN 0
    ELSE LET i == CHOOSE j \in 1..4 : a[j] # 0 /\ \A h \in 1..(j - 1) : a[h] = 0
             bits == CHOOSE n \in 1..16 : Pow2(n - 1) <= a[i] /\ a[i] < Pow2(n)
         IN  16 * (4 - i) + bits

\* a magnitude of up to 63 bits rounded to 53 significant bits
round_to_53_bits(a) ==
    IF BitLength(a) <= 53 THEN a
    ELSE LET low == Pow2(BitLength(a) - 53)
             rest == a[4] % low
             kept == <<a[1], a[2], a[3], a[4] - rest>>
             odd == (a[4] \div low) % 2 = 1
         IN  IF 2 * rest > low \/ (2 * rest = low /\ odd)
             THEN LimbsAdd(kept, <<0, 0, 0, low>>)
             ELSE kept

\* the float x = [m, exp] of the top_n arithmetic, 0 <= x < 2, as a float64
\* in units of 2^UnitExp
float64_of(x) ==
    IF x.zero THEN Float64Zero
    ELSE LET up == Pow2(x.exp - UnitExp)
             t4 == x.m[4] * up
             t3 == x.m[3] * up + (t4 \div 65536)
             t2 == x.m[2] * up + (t3 \div 65536)
             t1 == x.m[1] * up + (t2 \div 65536)
         IN  [neg |-> FALSE, k |-> <<t1, t2 % 65536, t3 % 65536, t4 % 65536>>]

float64_neg(a) == IF a.k = LimbsZero THEN a ELSE [neg |-> ~a.neg, k |-> a.k]

\* a + b in binary64
float64_add(a, b) ==
    IF a.neg = b.neg
    THEN [neg |-> a.neg, k |-> round_to_53_bits(LimbsAdd(a.k, b.k))]
    ELSE IF a.k = b.k THEN Float64Zero
    ELSE IF LimbsLess(a.k, b.k)
    THEN [neg |-> b.neg, k |-> round_to_53_bits(LimbsSub(b.k, a.k))]
    ELSE [neg |-> a.neg, k |-> round_to_53_bits(LimbsSub(a.k, b.k))]

float64_sub(a, b) == float64_add(a, float64_neg(b))

float64_less(a, b) ==
    IF a.neg # b.neg THEN a.neg
    ELSE IF a.neg THEN LimbsLess(b.k, a.k) ELSE LimbsLess(a.k, b.k)

\* groupby(...)["Amount"].sum() of one group of a float64 column, from row
\* i on, with the sum and the compensation so far
RECURSIVE group_sum_float64(_, _, _, _, _)
group_sum_float64(rows, id, i, sumx, comp) ==
    IF i > Len(rows) THEN sumx
    ELSE IF rows[i]["Customer ID"] # id \/ ~notna(rows[i]["Amount"])
    THEN group_sum_float64(rows, id, i + 1, sumx, comp)
    ELSE LET y == float64_sub(rows[i]["Amount"].v, comp)
             t == float64_add(sumx, y)
         IN  group_sum_float64(rows, id, i + 1, t,
                               float64_sub(float64_sub(t, sumx), y))

grouped_totals_float64(df) ==
    LET keys == group_keys(df)
    IN  [g \in 1..Len(keys) |->
            ("Customer ID" :> keys[g])
            @@ ("Total Monetary Value" :>
                    FloatCell(group_sum_float64(df.rows, keys[g], 1,
                                                Float64Zero, Float64Zero)))]

\* sort_values(by="Total Monetary Value", ascending=False) of float64 totals:
\* the descending arrangements of the rows, equal totals in any order
sort_values_descending_float64(rows) ==
    LET n == Len(rows)
    IN  {[i \in 1..n |-> rows[q[i]]] :
            q \in {f \in [1..n -> 1..n] :
                      /\ \A i, j \in 1..n : i # j => f[i] # f[j]
                      /\ \A i \in 1..(n - 1) :
                            ~float64_less(Total(rows[f[i]]), Total(rows[f[i + 1]]))}}

MaxSumRows == 3    \* rows of a table of amounts with cents

\* amounts 0.10, 0.20, 0.70 and 1.50: the floats nearest to those decimals
CentAmounts == {FloatCell(float64_of(float_div(c, 100))) : c \in {10, 20, 70, 150}}

CentRows ==
    {("Customer ID" :> c) @@ ("Amount" :> a) : c \in MVCustomers, a \in CentAmounts}

InitSum ==
    /\ \E n \in 1..MaxSumRows : \E rows \in [1..n -> CentRows] :
          all_data = DataFrame({"Customer ID", "Amount"}, rows)
    /\ mv_all_data = all_data
    /\ ingested = all_data
    /\ sheets = <<>> /\ printed = "" /\ report_all_data = None /\ pc = "none"
    /\ monetary_data = None /\ action_plan = None
    /\ top_percent = 0 /\ top_customers = None
    /\ error = "none"
    /\ id_result = None
    /\ frequency_data = None /\ recency_data = None /\ current_month = 0
    /\ customer_categories = None

\* self.monetary_value.calculate_monetary_value() on float64 amounts, which
\* to_numeric leaves as they are
CalculateMonetaryValueOfCents ==
    /\ \E sorted \in sort_values_descending_float64(grouped_totals_float64(mv_all_data)) :
          monetary_data' = DataFrame({"Customer ID", "Total Monetary Value"}, sorted)
    /\ top_customers' = None
    /\ error' = "none"
    /\ UNCHANGED <<mv_all_data, action_plan, top_percent, fr_vars, cat_vars, run_vars>>

NextSum == CalculateMonetaryValueOfCents

SpecSum == InitSum /\ [][NextSum]_vars

----------------------------------------------------------------------------
(* FrequencyRecency.calculate_monthly_visits and calculate_recency *)

\* the number written by the two digits s[i], s[i + 1]
TwoDigits(s, i) == (Ord(s[i]) - Ord("0")) * 10 + (Ord(s[i + 1]) - Ord("0"))

IsLeap(y) == (y % 4 = 0 /\ y % 100 # 0) \/ y % 400 = 0

DaysInMonth(y, mo) ==
    IF mo = 2 THEN (IF IsLeap(y) THEN 29 ELSE 28)
    ELSE IF mo \in {4, 6, 9, 11} THEN 30 ELSE 31

\* a string of the shape "MM/DD/YY HH:MM AM" or "... PM" with zero-padded
\* numbers that are a month, a day of it, an hour of the 12-hour clock and
\* a minute: what format="%m/%d/%y %I:%M %p" accepts among the strings of
\* the model
MatchesPaidDateFormat(s) ==
    /\ Len(s) = 17
    /\ \A i \in {1, 2, 4, 5, 7, 8, 10, 11, 13, 14} : s[i] \in Digits
    /\ s[3] = "/" /\ s[6] = "/" /\ s[9] = " " /\ s[12] = ":" /\ s[15] = " "
    /\ s[16] \in {"A", "P"} /\ s[17] = "M"
    /\ TwoDigits(s, 1) \in 1..12
    /\ TwoDigits(s, 10) \in 1..12
    /\ TwoDigits(s, 13) \in 0..59
    /\ LET yy == TwoDigits(s, 7)
           y == IF yy <= 68 THEN 2000 + yy ELSE 1900 + yy
       IN  TwoDigits(s, 4) \in 1..DaysInMonth(y, TwoDigits(s, 1))

\* the Timestamp such a string denotes: %y is 2000-2068 or 1969-1999, %I
\* with %p is the hour of the day
ParsedPaidDate(s) ==
    LET yy == TwoDigits(s, 7)
    IN  [Y |-> IF yy <= 68 THEN 2000 + yy ELSE 1900 + yy,
         M |-> TwoDigits(s, 1),
         D |-> TwoDigits(s, 4),
         h |-> (TwoDigits(s, 10) % 12) + (IF s[16] = "P" THEN 12 ELSE 0),
         m |-> TwoDigits(s, 13)]

\* the conversion that takes strings only: a Timestamp becomes NaT
to_datetime_of_strings(c) ==
    IF c.t = "str" /\ MatchesPaidDateFormat(c.v) THEN TsCell(ParsedPaidDate(c.v))
    ELSE NaTCell

\* pd.to_datetime(x, format="%m/%d/%y %I:%M %p", errors="coerce") of one
\* value: a Timestamp stays, a string is parsed, anything else is NaT
to_datetime(c) ==
    CASE c.t = "ts" -> c
      [] c.t = "str" ->
            IF MatchesPaidDateFormat(c.v) THEN TsCell(ParsedPaidDate(c.v)) ELSE NaTCell
      [] OTHER -> NaTCell

\* Series.dt.month of a datetime column: int32, or float64 with NaN when
\* the column has a NaT
month_column(cells) ==
    [i \in 1..Len(cells) |->
        IF \A j \in 1..Len(cells) : cells[j].t = "ts"
        THEN IntCell(cells[i].v.M)
        ELSE IF cells[i].t = "ts" THEN FloatCell(cells[i].v.M) ELSE NaNCell]

\* the two assignments followed by the removal of the rows whose Paid Date
\* did not parse
with_parsed_dates_dropping_unparsed(df) ==
    LET parsed == [i \in 1..Len(df.rows) |-> to_datetime(df.rows[i]["Paid Date"])]
        kept == SelectSeq([i \in 1..Len(df.rows) |-> i], LAMBDA i : parsed[i].t = "ts")
    IN  DataFrame(df.cols \cup {"Month"},
            [n \in 1..Len(kept) |->
                [k \in df.cols \cup {"Month"} |->
                    CASE k = "Paid Date" -> parsed[kept[n]]
                      [] k = "Month" -> IntCell(parsed[kept[n]].v.M)
                      [] OTHER -> df.rows[kept[n]][k]]])

\* all_data["Paid Date"] = pd.to_datetime(...); all_data["Month"] = ....dt.month:
\* the table as the two assignments leave it
with_parsed_dates(df) ==
    LET parsed == [i \in 1..Len(df.rows) |-> to_datetime(df.rows[i]["Paid Date"])]
        months == month_column(parsed)
    IN  DataFrame(df.cols \cup {"Month"},
            [i \in 1..Len(df.rows) |->
                [k \in df.cols \cup {"Month"} |->
                    CASE k = "Paid Date" -> parsed[i]
                      [] k = "Month" -> months[i]
                      [] OTHER -> df.rows[i][k]]])

\* the groups of groupby(["Customer ID", "Month"]), a missing month kept as
\* a group of its own
visit_groups_with_missing(df) ==
    {<<df.rows[i]["Customer ID"], df.rows[i]["Month"]>> :
        i \in {j \in 1..Len(df.rows) : notna(df.rows[j]["Customer ID"])}}

\* the groups of groupby(["Customer ID", "Month"]): the pairs that occur in
\* a row, without the rows where one of the two is missing
visit_groups(df) ==
    {<<df.rows[i]["Customer ID"], df.rows[i]["Month"]>> :
        i \in {j \in 1..Len(df.rows) :
                  notna(df.rows[j]["Customer ID"]) /\ notna(df.rows[j]["Month"])}}

\* group g comes before group h: by Customer ID, then by Month
GroupBefore(g, h) ==
    \/ StrLess(g[1].v, h[1].v)
    \/ g[1] = h[1] /\ g[2].t # "nan" /\ (h[2].t = "nan" \/ g[2].v < h[2].v)

\* one row per group, in sorted order, each counted as a single visit
group_sizes_one_each(df, groups) ==
    LET placed == {<<Cardinality({h \in groups : GroupBefore(h, g)}) + 1, g>> :
                      g \in groups}
    IN  [pos \in 1..Cardinality(groups) |->
            LET g == (CHOOSE p \in placed : p[1] = pos)[2]
            IN  ("Customer ID" :> g[1]) @@ ("Month" :> g[2]) @@ ("Visits" :> IntCell(1))]

\* .size().reset_index(name="Visits"): one row per group, in sorted order,
\* with the number of its rows
group_sizes(df, groups) ==
    LET placed == {<<Cardinality({h \in groups : GroupBefore(h, g)}) + 1, g>> :
                      g \in groups}
    IN  [pos \in 1..Cardinality(groups) |->
            LET g == (CHOOSE p \in placed : p[1] = pos)[2]
            IN  ("Customer ID" :> g[1]) @@ ("Month" :> g[2])
                @@ ("Visits" :> IntCell(Cardinality(
                        {i \in 1..Len(df.rows) :
                            /\ df.rows[i]["Customer ID"] = g[1]
                            /\ df.rows[i]["Month"] = g[2]})))]

\* calculate_monthly_visits working on a copy: the caller's table stays as
\* it was
calculate_monthly_visits_on_copy(df) ==
    IF "Paid Date" \notin df.cols
    THEN [table |-> df, result |-> Raise("KeyError")]
    ELSE LET after == with_parsed_dates(df)
         IN  IF "Customer ID" \notin df.cols
             THEN [table |-> df, result |-> Raise("KeyError")]
             ELSE [table |-> df,
                   result |-> DataFrame({"Customer ID", "Month", "Visits"},
                                        group_sizes(after, visit_groups(after)))]

\* calculate_monthly_visits(all_data): the table as the call leaves it and
\* what the call returns
calculate_monthly_visits(df) ==
    IF "Paid Date" \notin df.cols
    THEN [table |-> df, result |-> Raise("KeyError")]
    ELSE LET after == with_parsed_dates(df)
         IN  IF "Customer ID" \notin df.cols
             THEN [table |-> after, result |-> Raise("KeyError")]
             ELSE [table |-> after,
                   result |-> DataFrame({"Customer ID", "Month", "Visits"},
                                        group_sizes(after, visit_groups(after)))]

\* minutes since the start of year 0 of a calendar of 31-day months: it
\* orders Timestamps as time does
TsKey(ts) == (((ts.Y * 12 + ts.M) * 31 + ts.D) * 24 + ts.h) * 60 + ts.m

\* x < y for two values of one column: Timestamps by time, strings as str
CellLess(x, y) ==
    IF x.t = "ts" /\ y.t = "ts" THEN TsKey(x.v) < TsKey(y.v)
    ELSE StrLess(x.v, y.v)

\* the groups of groupby("Customer ID"), taken only from the rows that have
\* a Paid Date
recency_groups_with_date(df) ==
    {df.rows[i]["Customer ID"] :
        i \in {j \in 1..Len(df.rows) :
                  notna(df.rows[j]["Customer ID"]) /\ notna(df.rows[j]["Paid Date"])}}

\* the groups of groupby("Customer ID"): the customers of the rows
recency_groups(df) ==
    {df.rows[i]["Customer ID"] :
        i \in {j \in 1..Len(df.rows) : notna(df.rows[j]["Customer ID"])}}

\* ["Paid Date"].max() of one group: the greatest value that is not missing,
\* and the missing value of the column when there is none
group_max(df, c) ==
    LET present == {df.rows[i]["Paid Date"] :
                       i \in {j \in 1..Len(df.rows) :
                                 /\ df.rows[j]["Customer ID"] = c
                                 /\ notna(df.rows[j]["Paid Date"])}}
    IN  IF present = {}
        THEN (IF is_datetime(df, "Paid Date") THEN NaTCell ELSE NaNCell)
        ELSE CHOOSE x \in present : \A y \in present : ~CellLess(x, y)

\* calculate_recency(all_data)
calculate_recency(df) ==
    IF "Customer ID" \notin df.cols \/ "Paid Date" \notin df.cols
    THEN Raise("KeyError")
    ELSE LET keys == SortedStrs(recency_groups(df))
         IN  DataFrame({"Customer ID", "Recency"},
                 [g \in 1..Len(keys) |->
                     ("Customer ID" :> keys[g]) @@ ("Recency" :> group_max(df, keys[g]))])

----------------------------------------------------------------------------
(* The visit and recency methods of a FrequencyRecency object, called on   *)
(* a table that has the column Customer ID: 1..MaxFRRows transactions of   *)
(* two customers, with the Paid Date as the sheet has it (str) or as a     *)
(* caller parsed it beforehand (Timestamp or NaT).                         *)

FRCustomers == {StrCell(<<"1", "2">>), StrCell(<<"3", "4">>)}

\* October 2024, October 2023, September 2025, the format of the sample
\* data of the tests, and a blank cell
RawPaidDates ==
    {StrCell(<<"1", "0", "/", "0", "1", "/", "2", "4", " ",
               "1", "0", ":", "0", "0", " ", "A", "M">>),
     StrCell(<<"1", "0", "/", "1", "5", "/", "2", "3", " ",
               "0", "9", ":", "3", "0", " ", "P", "M">>),
     StrCell(<<"0", "9", "/", "3", "0", "/", "2", "5", " ",
               "1", "2", ":", "5", "9", " ", "A", "M">>),
     StrCell(<<"2", "0", "2", "4", "-", "1", "0", "-", "0", "1", " ",
               "1", "0", ":", "0", "0", ":", "0", "0">>),
     StrCell(<<>>)}

ParsedPaidDates ==
    {TsCell([Y |-> 2024, M |-> 10, D |-> 1, h |-> 10, m |-> 0]),
     TsCell([Y |-> 2023, M |-> 10, D |-> 15, h |-> 21, m |-> 30]),
     TsCell([Y |-> 2024, M |-> 8, D |-> 20, h |-> 17, m |-> 0]),
     NaTCell}

FRRows(dates) ==
    {("Customer ID" :> c) @@ ("Paid Date" :> d) : c \in FRCustomers, d \in dates}

InitFR ==
    /\ \E dates \in {RawPaidDates, ParsedPaidDates}, n \in 1..MaxFRRows :
          \E rows \in [1..n -> FRRows(dates)] :
             all_data = DataFrame({"Customer ID", "Paid Date"}, rows)
    /\ ingested = all_data
    /\ sheets = <<>> /\ printed = "" /\ report_all_data = None /\ pc = "none"
    /\ frequency_data = None /\ recency_data = None
    /\ error = "none"
    /\ id_result = None /\ current_month = 0 /\ customer_categories = None
    /\ mv_all_data = None /\ monetary_data = None /\ action_plan = None
    /\ top_percent = 0 /\ top_customers = None

\* monthly_visits = self.calculate_monthly_visits(self.all_data)
CalculateMonthlyVisits ==
    /\ LET r == calculate_monthly_visits(all_data)
       IN  /\ all_data' = r.table
           /\ IF Raised(r.result)
              THEN error' = r.result.raised /\ UNCHANGED frequency_data
              ELSE error' = "none" /\ frequency_data' = r.result
    /\ UNCHANGED <<id_result, recency_data, current_month, customer_categories,
                   mv_vars, run_vars>>

\* recency_data = self.calculate_recency(self.all_data)
CalculateRecency ==
    /\ LET r == calculate_recency(all_data)
       IN  IF Raised(r)
           THEN error' = r.raised /\ UNCHANGED recency_data
           ELSE error' = "none" /\ recency_data' = r
    /\ UNCHANGED <<fr_vars, frequency_data, current_month, customer_categories,
                   mv_vars, run_vars>>

NextFR ==
    \/ CalculateMonthlyVisits
    \/ CalculateRecency

SpecFR == InitFR /\ [][NextFR]_vars

----------------------------------------------------------------------------
(* FrequencyRecency.main and CustomerAnalysisReport.load_and_process_data  *)

RECURSIVE concat_rows(_, _)
concat_rows(frames, i) ==
    IF i > Len(frames) THEN <<>>
    ELSE frames[i].rows \o concat_rows(frames, i + 1)

\* pd.concat(frames, ignore_index=True): the rows of the frames one after
\* the other over the union of their columns, NaN where a frame lacks one
concat(frames) ==
    LET cols == UNION {frames[i].cols : i \in 1..Len(frames)}
        rows == concat_rows(frames, 1)
    IN  DataFrame(cols,
            [i \in 1..Len(rows) |->
                [k \in cols |-> IF k \in DOMAIN rows[i] THEN rows[i][k] ELSE NaNCell]])

\* what main leaves behind when a statement of its try block raises: the
\* except clause prints the error and main returns
main_failed(table, kind) ==
    [all_data |-> table, monthly_visits |-> None, recency_data |-> None,
     customer_categories |-> None, printed |-> "Error: " \o kind]

\* the statements of main's try block after create_customer_id, on the
\* table with the Customer ID column
main_analysis(with_id, month) ==
    LET stage == {[visits |-> v, recency |-> calculate_recency(v.table)] :
                     v \in {calculate_monthly_visits(with_id)}}
    IN  CHOOSE r \in
            {IF Raised(s.visits.result)
             THEN main_failed(s.visits.table, s.visits.result.raised)
             ELSE IF Raised(s.recency)
             THEN main_failed(s.visits.table, s.recency.raised)
             ELSE LET cats == categorize_customers(s.visits.result, s.recency, month)
                  IN  IF Raised(cats)
                      THEN main_failed(s.visits.table, cats.raised)
                      ELSE [all_data |-> s.visits.table,
                            monthly_visits |-> s.visits.result,
                            recency_data |-> s.recency,
                            customer_categories |-> cats,
                            printed |-> "Customer Categories"] : s \in stage} : TRUE

\* FrequencyRecency.main(): ws[i] is what get_data_from_google_sheet gives
\* for the i-th worksheet, a table or a raised exception
main(ws, month) ==
    IF \E i \in 1..Len(ws) : Raised(ws[i])
    THEN main_failed(None, ws[CHOOSE i \in 1..Len(ws) :
                                 Raised(ws[i]) /\ \A j \in 1..(i - 1) : ~Raised(ws[j])].raised)
    ELSE CHOOSE r \in
            {IF Raised(t.with_id) THEN main_failed(t.combined, t.with_id.raised)
             ELSE main_analysis(t.with_id, month) :
                t \in {[combined |-> c, with_id |-> create_customer_id(c)] :
                          c \in {concat(ws)}}} : TRUE

----------------------------------------------------------------------------
(* A run of load_and_process_data on 1..MaxWorksheets worksheets.  For     *)
(* each the sheet gives its records (none, or one transaction, under the   *)
(* headers the sheet has) or the request fails.                            *)

SheetRows ==
    {r \in RowsOver(RawColumns) :
        r["Paid Date"].t = "str" /\ r["Last 4 Card Digits"].t \in {"str", "int"}}

\* a transaction of a sheet that has no column of card digits
SheetRowsWithoutCard ==
    {r \in RowsOver(RawColumns \ {"Last 4 Card Digits"}) :
        r["Paid Date"].t = "str" /\ r["Amount"].t = "int" /\ r["Type"] = StrCell(<<"C", "a", "s", "h">>)}

\* pd.DataFrame(worksheet.get_all_records()), or the exception of gspread
SheetOutcomes ==
    {Raise("WorksheetNotFound"), DataFrame({}, <<>>)}
    \cup {DataFrame(RawColumns, <<r>>) : r \in SheetRows}
    \cup {DataFrame(RawColumns \ {"Last 4 Card Digits"}, <<r>>) : r \in SheetRowsWithoutCard}

InitLoad ==
    /\ \E n \in 1..MaxWorksheets : sheets \in [1..n -> SheetOutcomes]
    /\ current_month = 10
    /\ printed = "" /\ report_all_data = None /\ pc = "none"
    /\ all_data = None /\ ingested = None /\ id_result = None
    /\ frequency_data = None /\ recency_data = None /\ customer_categories = None
    /\ error = "none"
    /\ mv_all_data = None /\ monetary_data = None /\ action_plan = None
    /\ top_percent = 0 /\ top_customers = None

\* report.load_and_process_data(): it builds the FrequencyRecency object,
\* calls its main(), which returns whatever happened, and takes over its
\* all_data
LoadAndProcessData ==
    /\ \E r \in {main(sheets, current_month)} :
           /\ error' = "none"
           /\ all_data' = r.all_data
           /\ frequency_data' = r.monthly_visits
           /\ recency_data' = r.recency_data
           /\ customer_categories' = r.customer_categories
           /\ printed' = r.printed
           /\ report_all_data' = r.all_data
    /\ UNCHANGED <<id_result, current_month, ingested, sheets, mv_vars, pc>>

NextLoad == LoadAndProcessData

SpecLoad == InitLoad /\ [][NextLoad]_vars

----------------------------------------------------------------------------
(* The two branches of a report on one identity-resolved table of          *)
(* 1..MaxRunRows transactions: the segmentation of FrequencyRecency and a  *)
(* MonetaryValue object, built and used at any time before, between or     *)
(* after the segmentation.                                                 *)

RunPaidDates ==
    {StrCell(<<"1", "0", "/", "0", "1", "/", "2", "4", " ",
               "1", "0", ":", "0", "0", " ", "A", "M">>),
     StrCell(<<"0", "9", "/", "3", "0", "/", "2", "5", " ",
               "1", "2", ":", "5", "9", " ", "A", "M">>),
     StrCell(<<"2", "0", "2", "4", "-", "1", "0", "-", "0", "1", " ",
               "1", "0", ":", "0", "0", ":", "0", "0">>)}

RunAmounts == {IntCell(600), StrCell(<<"a", "b", "c">>)}

RunRows ==
    {("Customer ID" :> c) @@ ("Paid Date" :> d) @@ ("Amount" :> a) :
        c \in FRCustomers, d \in RunPaidDates, a \in RunAmounts}

InitRun ==
    /\ \E n \in 1..MaxRunRows : \E rows \in [1..n -> RunRows] :
          all_data = DataFrame({"Customer ID", "Paid Date", "Amount"}, rows)
    /\ ingested = all_data
    /\ current_month = 10
    /\ frequency_data = None /\ recency_data = None /\ customer_categories = None
    /\ mv_all_data = None /\ monetary_data = None /\ action_plan = None
    /\ top_percent = 0 /\ top_customers = None
    /\ error = "none" /\ id_result = None
    /\ sheets = <<>> /\ printed = "" /\ report_all_data = None /\ pc = "none"

\* self.monetary_value = MonetaryValue(self.all_data)
NewMonetaryValue ==
    /\ mv_all_data' = all_data
    /\ monetary_data' = None /\ action_plan' = None
    /\ error' = "none"
    /\ UNCHANGED <<top_percent, top_customers, fr_vars, cat_vars, run_vars>>

\* monthly_visits = ...calculate_monthly_visits(self.all_data)
\* recency_data = ...calculate_recency(self.all_data)
\* customer_categories = ...categorize_customers(monthly_visits, recency_data)
SegmentCustomers ==
    /\ LET visits == calculate_monthly_visits(all_data)
           recency == calculate_recency(visits.table)
           cats == categorize_customers(visits.result, recency, current_month)
       IN  /\ all_data' = visits.table
           /\ IF Raised(visits.result)
              THEN error' = visits.result.raised
                   /\ UNCHANGED <<frequency_data, recency_data, customer_categories>>
              ELSE /\ frequency_data' = visits.result
                   /\ IF Raised(recency)
                      THEN error' = recency.raised
                           /\ UNCHANGED <<recency_data, customer_categories>>
                      ELSE /\ recency_data' = recency
                           /\ IF Raised(cats)
                              THEN error' = cats.raised /\ UNCHANGED customer_categories
                              ELSE error' = "none" /\ customer_categories' = cats
    /\ UNCHANGED <<id_result, current_month, mv_vars, run_vars>>

NextRun ==
    \/ NewMonetaryValue
    \/ mv_all_data # None /\ CalculateMonetaryValue
    \/ mv_all_data # None /\ GenerateActionPlan
    \/ SegmentCustomers

SpecRun == InitRun /\ [][NextRun]_vars

----------------------------------------------------------------------------
(* A run of the report's main(), statement by statement:                   *)
(* load_and_process_data (FrequencyRecency.main), analyze_monetary_value   *)
(* and generate_report, which starts with generate_combined_visuals.  An   *)
(* exception inside FrequencyRecency.main is printed and main returns; an  *)
(* exception anywhere else ends the run.  report.all_data is the table     *)
(* object of FrequencyRecency.all_data from line 93 on.                    *)

PipeRows ==
    {r \in RowsOver(RawColumns) :
        /\ r["Last 4 Card Digits"] \in {StrCell(<<"1", "2">>), StrCell(<<>>)}
        /\ r["Amount"].t = "int" /\ r["Type"] = StrCell(<<"C", "a", "s", "h">>)}

\* the rows of PipeRows with each of three timestamps as the sheet has them
PipeSheetRows == {[r EXCEPT !["Paid Date"] = d] : r \in PipeRows, d \in RunPaidDates}

PipeOutcomes ==
    {Raise("WorksheetNotFound"), DataFrame({}, <<>>)}
    \cup {DataFrame(RawColumns, <<r>>) : r \in PipeSheetRows}
    \cup {DataFrame(RawColumns \ {"Last 4 Card Digits"}, <<r>>) : r \in SheetRowsWithoutCard}

InitPipe ==
    /\ \E n \in 1..MaxPipeWorksheets : sheets \in [1..n -> PipeOutcomes]
    /\ pc = "main_fetch"
    /\ current_month = 10
    /\ printed = "" /\ report_all_data = None
    /\ all_data = None /\ ingested = None /\ id_result = None
    /\ frequency_data = None /\ recency_data = None /\ customer_categories = None
    /\ error = "none"
    /\ mv_all_data = None /\ monetary_data = None /\ action_plan = None
    /\ top_percent = 0 /\ top_customers = None

MainSteps == {"main_fetch", "main_identity", "main_visits", "main_recency",
              "main_categorize"}

\* the statement after a step that returned
NextStep ==
    ("main_visits" :> "main_recency") @@ ("main_recency" :> "main_categorize")
    @@ ("main_categorize" :> "analyze")
    @@ ("visuals_visits" :> "visuals_recency")
    @@ ("visuals_recency" :> "visuals_categorize")
    @@ ("visuals_categorize" :> "visuals_heatmap")
    @@ ("report_visits" :> "report_recency")
    @@ ("report_recency" :> "report_categorize")
    @@ ("report_categorize" :> "report_top")

\* a statement raises, the working table being table: inside main the
\* except clause prints the error, main returns and line 93 takes the table
\* over; elsewhere the exception ends the run
StepRaises(kind, table) ==
    /\ report_all_data' = table
    /\ IF pc \in MainSteps
       THEN printed' = "Error: " \o kind /\ pc' = "analyze" /\ UNCHANGED error
       ELSE error' = kind /\ pc' = "crashed" /\ UNCHANGED printed

\* a statement returns, the working table being table
StepReturns(table) ==
    /\ pc' = NextStep[pc]
    /\ report_all_data' = IF pc \in MainSteps THEN report_all_data ELSE table
    /\ UNCHANGED <<printed, error>>

\* main, lines 238-243: the worksheets are fetched in turn and concatenated
Fetch ==
    /\ pc = "main_fetch"
    /\ IF \E i \in 1..Len(sheets) : Raised(sheets[i])
       THEN /\ StepRaises(sheets[CHOOSE i \in 1..Len(sheets) :
                                    Raised(sheets[i])
                                    /\ \A j \in 1..(i - 1) : ~Raised(sheets[j])].raised,
                          None)
            /\ UNCHANGED all_data
       ELSE /\ all_data' = concat(sheets)
            /\ pc' = "main_identity"
            /\ UNCHANGED <<printed, error, report_all_data>>
    /\ UNCHANGED <<id_result, ingested, sheets, cat_vars, mv_vars>>

\* main, line 246: self.all_data = self.create_customer_id(self.all_data)
CreateCustomerIdStep ==
    /\ pc = "main_identity"
    /\ \E r \in {create_customer_id(all_data)} :
          IF Raised(r)
          THEN StepRaises(r.raised, all_data) /\ UNCHANGED <<all_data, ingested>>
          ELSE /\ all_data' = r /\ ingested' = r
               /\ pc' = "main_visits"
               /\ UNCHANGED <<printed, error, report_all_data>>
    /\ UNCHANGED <<id_result, sheets, cat_vars, mv_vars>>

\* calculate_monthly_visits(self.all_data): main line 249,
\* generate_combined_visuals line 133, generate_report line 224
VisitsStep ==
    /\ pc \in {"main_visits", "visuals_visits", "report_visits"}
    /\ \E v \in {calculate_monthly_visits(all_data)} :
          /\ all_data' = v.table
          /\ IF Raised(v.result)
             THEN StepRaises(v.result.raised, v.table) /\ UNCHANGED frequency_data
             ELSE StepReturns(v.table) /\ frequency_data' = v.result
    /\ UNCHANGED <<id_result, ingested, sheets, recency_data, current_month,
                   customer_categories, mv_vars>>

\* calculate_recency(self.all_data): main line 250,
\* generate_combined_visuals line 134, generate_report line 225
RecencyStep ==
    /\ pc \in {"main_recency", "visuals_recency", "report_recency"}
    /\ \E r \in {calculate_recency(all_data)} :
          IF Raised(r)
          THEN StepRaises(r.raised, all_data) /\ UNCHANGED recency_data
          ELSE StepReturns(all_data) /\ recency_data' = r
    /\ UNCHANGED <<all_data, id_result, ingested, sheets, frequency_data, current_month,
                   customer_categories, mv_vars>>

\* categorize_customers(monthly_visits, recency_data): main lines 253-254
\* (the result is printed and main returns), generate_combined_visuals
\* line 135, generate_report line 223
CategorizeStep ==
    /\ pc \in {"main_categorize", "visuals_categorize", "report_categorize"}
    /\ \E cats \in {categorize_customers(frequency_data, recency_data, current_month)} :
          IF Raised(cats)
          THEN StepRaises(cats.raised, all_data) /\ UNCHANGED customer_categories
          ELSE /\ customer_categories' = cats
               /\ pc' = NextStep[pc]
               /\ report_all_data' = all_data
               /\ printed' = IF pc = "main_categorize" THEN "Customer Categories"
                             ELSE printed
               /\ UNCHANGED error
    /\ UNCHANGED <<all_data, id_result, ingested, sheets, frequency_data, recency_data,
                   current_month, mv_vars>>

\* report.analyze_monetary_value(), lines 111-113: MonetaryValue(self.all_data),
\* calculate_monetary_value(), generate_action_plan()
AnalyzeMonetaryValue ==
    /\ pc = "analyze"
    /\ IF report_all_data = None
       THEN /\ error' = "AttributeError" /\ pc' = "crashed"
            /\ UNCHANGED <<mv_all_data, monetary_data, action_plan>>
       ELSE IF "Amount" \notin report_all_data.cols
       THEN /\ mv_all_data' = report_all_data
            /\ error' = "KeyError" /\ pc' = "crashed"
            /\ UNCHANGED <<monetary_data, action_plan>>
       ELSE \E coerced \in {coerce_amount(report_all_data)} :
               /\ mv_all_data' = coerced
               /\ IF "Customer ID" \notin coerced.cols
                  THEN /\ error' = "KeyError" /\ pc' = "crashed"
                       /\ UNCHANGED <<monetary_data, action_plan>>
                  ELSE \E sorted \in sort_values_descending(grouped_totals(coerced)) :
                          \E md \in {DataFrame({"Customer ID", "Total Monetary Value"},
                                               sorted)} :
                             /\ monetary_data' = md
                             /\ action_plan' = generate_action_plan(md)
                             /\ pc' = "visuals_visits"
                             /\ UNCHANGED error
    /\ UNCHANGED <<top_percent, top_customers, fr_vars, cat_vars, ingested, sheets,
                   printed, report_all_data>>

WeekdayNames ==
    <<StrCell(<<"S", "u", "n", "d", "a", "y">>),
      StrCell(<<"M", "o", "n", "d", "a", "y">>),
      StrCell(<<"T", "u", "e", "s", "d", "a", "y">>),
      StrCell(<<"W", "e", "d", "n", "e", "s", "d", "a", "y">>),
      StrCell(<<"T", "h", "u", "r", "s", "d", "a", "y">>),
      StrCell(<<"F", "r", "i", "d", "a", "y">>),
      StrCell(<<"S", "a", "t", "u", "r", "d", "a", "y">>)>>

\* Timestamp.day_name(): the day of the week of a date of the Gregorian
\* calendar
day_name(ts) ==
    LET offset == <<0, 3, 2, 5, 0, 3, 5, 1, 4, 6, 2, 4>>
        y == IF ts.M < 3 THEN ts.Y - 1 ELSE ts.Y
    IN  WeekdayNames[((y + (y \div 4) - (y \div 100) + (y \div 400)
                       + offset[ts.M] + ts.D) % 7) + 1]

\* generate_combined_visuals, lines 139-141, on a Paid Date column that
\* calculate_monthly_visits has parsed: to_datetime leaves Timestamps and
\* NaT as they are, and the columns Hour and Weekday are added
with_hour_and_weekday(df) ==
    LET n == Len(df.rows)
        cols == df.cols \cup {"Hour", "Weekday"}
        whole == \A j \in 1..n : df.rows[j]["Paid Date"].t = "ts"
    IN  DataFrame(cols,
            [i \in 1..n |->
                [k \in cols |->
                    LET d == df.rows[i]["Paid Date"]
                    IN  CASE k = "Hour" ->
                                 (IF d.t # "ts" THEN NaNCell
                                  ELSE IF whole THEN IntCell(d.v.h) ELSE FloatCell(d.v.h))
                          [] k = "Weekday" ->
                                 (IF d.t # "ts" THEN NaNCell ELSE day_name(d.v))
                          [] OTHER -> df.rows[i][k]]])

\* generate_combined_visuals, lines 136-145: the data of the heat map
HeatmapData ==
    /\ pc = "visuals_heatmap"
    /\ \E table \in {with_hour_and_weekday(all_data)} :
          /\ all_data' = table /\ report_all_data' = table
    /\ pc' = "visuals_plot"
    /\ UNCHANGED <<id_result, ingested, sheets, printed, error, cat_vars, mv_vars>>

\* generate_combined_visuals, lines 148-202: matplotlib and seaborn draw
\* the four charts from the values computed; they assign no field, and
\* whether they draw or raise for these values (six tick labels for the
\* months there are, a heat map of the orders there are) is theirs to say
DrawCharts ==
    /\ pc = "visuals_plot"
    /\ \/ pc' = "report_visits" /\ UNCHANGED error
       \/ pc' = "crashed" /\ error' = "ValueError"
    /\ UNCHANGED <<fr_vars, cat_vars, mv_vars, ingested, sheets, printed,
                   report_all_data>>

\* generate_report, lines 227-230:
\* print(self.monetary_value.identify_top_spending_customers(top_percent=10))
\* and print(self.monetary_value.action_plan.head())
ReportTopCustomers ==
    /\ pc = "report_top"
    /\ top_percent' = 10
    /\ top_customers' = head(monetary_data, top_n(Len(monetary_data.rows), 10))
    /\ pc' = "done"
    /\ UNCHANGED <<mv_all_data, monetary_data, action_plan, error, fr_vars, cat_vars,
                   ingested, sheets, printed, report_all_data>>

NextPipe ==
    \/ Fetch
    \/ CreateCustomerIdStep
    \/ VisitsStep
    \/ RecencyStep
    \/ CategorizeStep
    \/ AnalyzeMonetaryValue
    \/ HeatmapData
    \/ DrawCharts
    \/ ReportTopCustomers

SpecPipe == InitPipe /\ [][NextPipe]_vars

----------------------------------------------------------------------------
(* Claims about create_customer_id (SpecId) *)

\* the card-suffix string of a raw row: its value as text, blank when missing
CardSuffix(raw) ==
    IF raw["Last 4 Card Digits"].t = "nan" THEN <<>>
    ELSE Format(raw["Last 4 Card Digits"])

\* timestamp|amount|payment-type of a raw row
Composite(raw) ==
    Format(raw["Paid Date"]) \o <<"|">> \o Format(raw["Amount"]) \o <<"|">>
    \o Format(raw["Type"])

\* the identity of Scenario A's third row: "2024-08-20 17:00:00|75.00|Cash"
ScenarioAIdentity ==
    <<"2", "0", "2", "4", "-", "0", "8", "-", "2", "0", " ",
      "1", "7", ":", "0", "0", ":", "0", "0", "|",
      "7", "5", ".", "0", "0", "|", "C", "a", "s", "h">>

ScenarioARow(raw) ==
    /\ raw["Last 4 Card Digits"] = StrCell(<<>>)
    /\ raw["Paid Date"] = TsCell([Y |-> 2024, M |-> 8, D |-> 20, h |-> 17, m |-> 0])
    /\ raw["Amount"] = StrCell(<<"7", "5", ".", "0", "0">>)
    /\ raw["Type"] = StrCell(<<"C", "a", "s", "h">>)

\* C5: after create_customer_id, a row whose card-suffix string is non-empty
\* and all digits has that string as identity, every other row has
\* timestamp|amount|payment-type of its own values; rows with the same digit
\* suffix share the identity whatever their other fields, suffix-less rows
\* with equal timestamp, amount and type share it, and Scenario A's cash row
\* gets "2024-08-20 17:00:00|75.00|Cash".
C5_IdentityRule ==
    id_result.set =>
        /\ Len(id_result.rows) = Len(all_data.rows)
        /\ \A i \in 1..Len(id_result.rows) :
              LET raw == all_data.rows[i]
                  id == id_result.rows[i]["Customer ID"]
              IN  /\ id.t = "str"
                  /\ IsDigit(CardSuffix(raw)) => id.v = CardSuffix(raw)
                  /\ ~IsDigit(CardSuffix(raw)) =>
                        /\ {"Paid Date", "Amount", "Type"} \subseteq DOMAIN raw
                        /\ id.v = Composite(raw)
                  /\ (all_data.cols = RawColumns /\ ScenarioARow(raw)) =>
                        id.v = ScenarioAIdentity
        /\ \A i, j \in 1..Len(id_result.rows) :
              LET ri == all_data.rows[i]
                  rj == all_data.rows[j]
                  same == id_result.rows[i]["Customer ID"] = id_result.rows[j]["Customer ID"]
              IN  /\ (IsDigit(CardSuffix(ri)) /\ CardSuffix(ri) = CardSuffix(rj)) => same
                  /\ (/\ CardSuffix(ri) = <<>> /\ CardSuffix(rj) = <<>>
                      /\ all_data.cols = RawColumns
                      /\ ri["Paid Date"] = rj["Paid Date"]
                      /\ ri["Amount"] = rj["Amount"]
                      /\ ri["Type"] = rj["Type"]) => same

\* C5 witness: a returned table with a digit-suffix row given as an int, a
\* second row with the same suffix as text but another date, amount and type
C5_Witness ==
    /\ id_result.set
    /\ all_data.cols = RawColumns
    /\ Len(id_result.rows) = 2
    /\ all_data.rows[1]["Last 4 Card Digits"] = IntCell(12)
    /\ all_data.rows[2]["Last 4 Card Digits"] = StrCell(<<"1", "2">>)
    /\ all_data.rows[1]["Paid Date"] # all_data.rows[2]["Paid Date"]
    /\ all_data.rows[1]["Amount"] # all_data.rows[2]["Amount"]
    /\ all_data.rows[1]["Type"] # all_data.rows[2]["Type"]
    /\ id_result.rows[1]["Customer ID"] = StrCell(<<"1", "2">>)

\* C6: create_customer_id raises no error, also when the table lacks one of
\* the fields card-suffix, timestamp, amount, payment-type.
C6_NoErrorOnMissingField == error = "none"

----------------------------------------------------------------------------
(* Claims about categorize_customers (SpecCat) *)

RECURSIVE SumOfSet(_, _)
SumOfSet(S, f) ==
    IF S = {} THEN 0
    ELSE LET x == CHOOSE y \in S : TRUE IN f[x] + SumOfSet(S \ {x}, f)

\* the customers of the visit records
VisitCustomers ==
    {frequency_data.rows[i]["Customer ID"] : i \in 1..Len(frequency_data.rows)}

\* the visit rows of a customer
VisitRowsOf(c) ==
    {i \in 1..Len(frequency_data.rows) : frequency_data.rows[i]["Customer ID"] = c}

\* a customer's visits summed over all of the customer's months
TotalVisitsOf(c) ==
    SumOfSet(VisitRowsOf(c), [i \in VisitRowsOf(c) |-> frequency_data.rows[i]["Visits"].v])

\* the month of a customer's recency, 0 when the recency is unknown
\* (no recency row, or a missing value)
RecencyMonthOf(c) ==
    LET known == {i \in 1..Len(recency_data.rows) :
                     /\ recency_data.rows[i]["Customer ID"] = c
                     /\ recency_data.rows[i]["Recency"].t = "ts"}
    IN  IF known = {} THEN 0
        ELSE recency_data.rows[CHOOSE i \in known : TRUE]["Recency"].v.M

RecencyUnknown(c) == RecencyMonthOf(c) = 0

\* the segment the classification rule gives a customer
SegmentOf(c) ==
    IF TotalVisitsOf(c) > 6
    THEN IF RecencyMonthOf(c) = current_month
         THEN "Active Regular" ELSE "Inactive Regular"
    ELSE IF RecencyMonthOf(c) = current_month
         THEN "Active Occasional" ELSE "Inactive Occasional"

CountOf(label) == customer_categories.counts[label]

SumOfCounts ==
    CountOf("Active Regular") + CountOf("Inactive Regular")
    + CountOf("Active Occasional") + CountOf("Inactive Occasional")

\* C1: the four segment counts sum to the number of distinct customers of
\* the visit records, each customer counted once whatever the number of
\* months the customer has visit rows in.
C1_CountsSumToCustomers ==
    customer_categories.set => SumOfCounts = Cardinality(VisitCustomers)

\* C2: a customer is classified by the visits summed over all the customer's
\* months and by the recency month: the segments with a non-zero count are
\* exactly the segments the rule (total > 6, recency month = reference
\* month) gives the customers of the visit records.
C2_ClassifiedByTotalAndRecency ==
    customer_categories.set =>
        {l \in Labels : CountOf(l) > 0} = {SegmentOf(c) : c \in VisitCustomers}

\* C2 witness: a customer with 1 and 6 visits in two months (7 in total, no
\* month above 6) and recency in the reference month is an Active Regular,
\* next to a customer with 6 visits who is an Occasional
C2_Witness ==
    /\ customer_categories.set
    /\ \E c \in VisitCustomers :
          /\ Cardinality(VisitRowsOf(c)) = 2
          /\ TotalVisitsOf(c) = 7
          /\ RecencyMonthOf(c) = current_month
    /\ \E c \in VisitCustomers : TotalVisitsOf(c) = 6
    /\ CountOf("Active Regular") > 0
    /\ CountOf("Active Occasional") + CountOf("Inactive Occasional") > 0

\* the number of visit rows of the customers in a set
VisitRowCount(S) ==
    Cardinality({i \in 1..Len(frequency_data.rows) :
                    frequency_data.rows[i]["Customer ID"] \in S})

\* C3: a customer of the visit records whose recency is unknown is kept by
\* the join and counted Inactive, never Active: only rows of customers with
\* a known recency in the reference month are counted Active, and every row
\* of a customer with unknown recency is counted Inactive.
C3_UnknownRecencyIsInactive ==
    customer_categories.set =>
        /\ CountOf("Active Regular") + CountOf("Active Occasional")
              <= VisitRowCount({c \in VisitCustomers : RecencyMonthOf(c) = current_month})
        /\ CountOf("Inactive Regular") + CountOf("Inactive Occasional")
              >= VisitRowCount({c \in VisitCustomers : RecencyUnknown(c)})
        /\ (\A c \in VisitCustomers : RecencyUnknown(c)) =>
              /\ CountOf("Active Regular") + CountOf("Active Occasional") = 0
              /\ CountOf("Inactive Regular") + CountOf("Inactive Occasional")
                    = Len(frequency_data.rows)

\* C3 witness: one customer without a recency row and one with a missing
\* recency value, both with visits, have been categorized
C3_Witness ==
    /\ customer_categories.set
    /\ Cardinality(VisitCustomers) = 2
    /\ Len(recency_data.rows) = 1
    /\ recency_data.rows[1]["Recency"] = NaTCell
    /\ CountOf("Inactive Regular") > 0
    /\ CountOf("Inactive Occasional") > 0

----------------------------------------------------------------------------
(* Claims about MonetaryValue (SpecMV) *)

\* what a transaction's Amount counts for: its number, and nothing when it
\* is not a number
AmountCounted(c) ==
    CASE c.t = "int" -> c.v
      [] c = StrCell(<<"7", "5", ".", "0", "0">>) -> 75
      [] OTHER -> 0

CallerCustomers == {all_data.rows[i]["Customer ID"] : i \in 1..Len(all_data.rows)}

CallerRowsOf(c) == {i \in 1..Len(all_data.rows) : all_data.rows[i]["Customer ID"] = c}

RECURSIVE SumAmounts(_)
SumAmounts(I) ==
    IF I = {} THEN 0
    ELSE LET i == CHOOSE j \in I : TRUE
         IN  AmountCounted(all_data.rows[i]["Amount"]) + SumAmounts(I \ {i})

\* C7: the monetary table has exactly one row per distinct customer of the
\* transaction table, and the row's total is the sum of the customer's
\* amounts, a non-numeric amount adding nothing
C7_OneTotalPerCustomer ==
    monetary_data.set =>
        /\ {monetary_data.rows[i]["Customer ID"] : i \in 1..Len(monetary_data.rows)}
              = CallerCustomers
        /\ Len(monetary_data.rows) = Cardinality(CallerCustomers)
        /\ \A i \in 1..Len(monetary_data.rows) :
              monetary_data.rows[i]["Total Monetary Value"].v
                 = SumAmounts(CallerRowsOf(monetary_data.rows[i]["Customer ID"]))

\* a customer whose only amount is not a number has a row with total 0,
\* next to a customer whose two amounts are added
C7_Witness ==
    /\ monetary_data.set
    /\ \E c, d \in CallerCustomers :
          /\ \A i \in CallerRowsOf(c) : all_data.rows[i]["Amount"] = StrCell(<<"a", "b", "c">>)
          /\ Cardinality(CallerRowsOf(d)) = 2
          /\ \E i, j \in 1..Len(monetary_data.rows) :
                /\ monetary_data.rows[i]["Customer ID"] = c
                /\ monetary_data.rows[i]["Total Monetary Value"].v = 0
                /\ monetary_data.rows[j]["Customer ID"] = d
                /\ monetary_data.rows[j]["Total Monetary Value"].v = 575

\* C8: the rows of the monetary table are in descending order of total
C8_DescendingTotals ==
    monetary_data.set =>
        \A i, j \in 1..Len(monetary_data.rows) :
            i < j => monetary_data.rows[i]["Total Monetary Value"].v
                        >= monetary_data.rows[j]["Total Monetary Value"].v

\* the customer that groupby puts first has the smaller total and comes second
C8_Witness ==
    /\ monetary_data.set
    /\ Len(monetary_data.rows) = 2
    /\ monetary_data.rows[1]["Customer ID"] = StrCell(<<"C", "2">>)
    /\ monetary_data.rows[2]["Customer ID"] = StrCell(<<"C", "1">>)
    /\ monetary_data.rows[1]["Total Monetary Value"].v
          > monetary_data.rows[2]["Total Monetary Value"].v

\* the label of the claim for a total
LabelFor(value) ==
    CASE value > 1000 -> "VIP Treatment: Personalized Offers"
      [] value >= 500 /\ value <= 1000 -> "Upselling: Discounts on Larger Purchases"
      [] value >= 100 /\ value < 500 -> "Retention: Loyalty Rewards"
      [] value < 100 -> "Engagement: Marketing Emails or Social Media"

\* C9: the action plan has one row per customer of the monetary table, in
\* its columns and order, and the row's Action is VIP above 1000, Upselling
\* from 500 to 1000, Retention from 100 to below 500, Engagement below 100
C9_ActionByThreshold ==
    action_plan.set =>
        /\ Len(action_plan.rows) = Len(monetary_data.rows)
        /\ {action_plan.rows[i]["Customer ID"] : i \in 1..Len(action_plan.rows)}
              = {monetary_data.rows[i]["Customer ID"] : i \in 1..Len(monetary_data.rows)}
        /\ \A i \in 1..Len(action_plan.rows) :
              action_plan.rows[i]["Action"]
                 = LabelFor(action_plan.rows[i]["Total Monetary Value"].v)

\* a plan with a total of exactly 1000 (Upselling), one of exactly 500
\* (Upselling), and a customer above 1000 (VIP)
C9_Witness ==
    /\ action_plan.set
    /\ \E i, j, k \in 1..Len(action_plan.rows) :
          /\ action_plan.rows[i]["Total Monetary Value"].v = 1000
          /\ action_plan.rows[i]["Action"] = "Upselling: Discounts on Larger Purchases"
          /\ action_plan.rows[j]["Total Monetary Value"].v = 500
          /\ action_plan.rows[j]["Action"] = "Upselling: Discounts on Larger Purchases"
          /\ action_plan.rows[k]["Total Monetary Value"].v > 1000
          /\ action_plan.rows[k]["Action"] = "VIP Treatment: Personalized Offers"

\* C10: the top customers are the first floor(N * top_percent / 100) rows of
\* the monetary table of N rows
C10_TopRowsAreFloorOfShare ==
    top_customers.set =>
        top_customers.rows
           = SubSeq(monetary_data.rows, 1,
                    (Len(monetary_data.rows) * top_percent) \div 100)

\* C11: while monetary_data is unset, generate_action_plan and
\* identify_top_spending_customers raise the ValueError that names
\* calculate_monetary_value, return nothing and leave monetary_data and
\* action_plan unset; once monetary_data is set neither call raises
C11_NotYetComputedError ==
    [][(GenerateActionPlan \/ IdentifyTopSpendingCustomers) =>
          IF monetary_data = None
          THEN /\ error' = "ValueError: Monetary value data has not been calculated. Call calculate_monetary_value() first."
               /\ monetary_data' = None /\ action_plan' = None
               /\ top_customers' = None
          ELSE error' = "none"]_vars

\* a call made before calculate_monetary_value has raised the error
C11_Witness ==
    /\ error = "ValueError: Monetary value data has not been calculated. Call calculate_monetary_value() first."
    /\ monetary_data = None /\ action_plan = None /\ top_customers = None
    /\ Len(all_data.rows) > 0

----------------------------------------------------------------------------
(* Claims about calculate_monthly_visits and calculate_recency (SpecFR) *)

\* the calendar month of a Paid Date as it was ingested, 0 when it is not a
\* timestamp in the expected format
MonthOfPaidDate(c) ==
    CASE c.t = "ts" -> c.v.M
      [] c = StrCell(<<"1", "0", "/", "0", "1", "/", "2", "4", " ",
                       "1", "0", ":", "0", "0", " ", "A", "M">>) -> 10
      [] c = StrCell(<<"1", "0", "/", "1", "5", "/", "2", "3", " ",
                       "0", "9", ":", "3", "0", " ", "P", "M">>) -> 10
      [] c = StrCell(<<"0", "9", "/", "3", "0", "/", "2", "5", " ",
                       "1", "2", ":", "5", "9", " ", "A", "M">>) -> 9
      [] OTHER -> 0

IngestedCustomers == {ingested.rows[i]["Customer ID"] : i \in 1..Len(ingested.rows)}

\* the ingested transactions of a customer, and those of them in a month
TransactionsOf(c) == {i \in 1..Len(ingested.rows) : ingested.rows[i]["Customer ID"] = c}

TransactionsIn(c, mo) ==
    {i \in TransactionsOf(c) : MonthOfPaidDate(ingested.rows[i]["Paid Date"]) = mo}

\* C13: the monthly visit records have one row per (customer, month) with a
\* transaction whose timestamp parses, Visits is the number of the
\* customer's transactions in that month of any year and is at least 1,
\* and transactions whose timestamp does not parse are left out without an
\* error
C13_VisitsPerCustomerMonth ==
    frequency_data.set =>
        /\ error = "none"
        /\ \A i \in 1..Len(frequency_data.rows) :
              frequency_data.rows[i]["Month"].t \in {"int", "float"}
        /\ \A i, j \in 1..Len(frequency_data.rows) :
              (/\ frequency_data.rows[i]["Customer ID"] = frequency_data.rows[j]["Customer ID"]
               /\ frequency_data.rows[i]["Month"].v = frequency_data.rows[j]["Month"].v)
                 => i = j
        /\ \A c \in IngestedCustomers, mo \in 1..12 :
              TransactionsIn(c, mo) # {} =>
                 \E i \in 1..Len(frequency_data.rows) :
                    /\ frequency_data.rows[i]["Customer ID"] = c
                    /\ frequency_data.rows[i]["Month"].v = mo
        /\ \A i \in 1..Len(frequency_data.rows) :
              /\ frequency_data.rows[i]["Visits"].v >= 1
              /\ frequency_data.rows[i]["Visits"].v
                    = Cardinality(TransactionsIn(frequency_data.rows[i]["Customer ID"],
                                                 frequency_data.rows[i]["Month"].v))

\* a customer with transactions in October of two years and one whose
\* timestamp does not parse has a single October row with 2 visits
C13_Witness ==
    /\ frequency_data.set
    /\ \E c \in IngestedCustomers :
          /\ Cardinality(TransactionsOf(c)) = 3
          /\ Cardinality(TransactionsIn(c, 0)) = 1
          /\ \E i, j \in TransactionsIn(c, 10) :
                ingested.rows[i]["Paid Date"] # ingested.rows[j]["Paid Date"]
          /\ \E i \in 1..Len(frequency_data.rows) :
                /\ frequency_data.rows[i]["Customer ID"] = c
                /\ frequency_data.rows[i]["Month"].v = 10
                /\ frequency_data.rows[i]["Visits"].v = 2

\* C14 as claimed: a customer's visit counts summed over the months equal
\* the number of the customer's transactions
C14_VisitsSumToTransactions ==
    frequency_data.set =>
        \A c \in IngestedCustomers : TotalVisitsOf(c) = Cardinality(TransactionsOf(c))

\* C14: a customer's visit counts summed over the months equal the number
\* of the customer's transactions whose timestamp parses
C14_VisitsSumToParsedTransactions ==
    frequency_data.set =>
        \A c \in IngestedCustomers :
            TotalVisitsOf(c) = Cardinality(TransactionsOf(c) \ TransactionsIn(c, 0))

\* a customer with two transactions in one month, one in another month and
\* none that fails to parse
C14_Witness ==
    /\ frequency_data.set
    /\ \E c \in IngestedCustomers :
          /\ Cardinality(TransactionsIn(c, 10)) = 2
          /\ Cardinality(TransactionsIn(c, 9)) = 1
          /\ Cardinality(VisitRowsOf(c)) = 2
          /\ TotalVisitsOf(c) = 3

\* the moment a Paid Date stands for, as <<year, month, day, hour, minute>>;
\* <<0>> when it is not a timestamp in the expected format
MomentOf(c) ==
    CASE c.t = "ts" -> <<c.v.Y, c.v.M, c.v.D, c.v.h, c.v.m>>
      [] c = StrCell(<<"1", "0", "/", "0", "1", "/", "2", "4", " ",
                       "1", "0", ":", "0", "0", " ", "A", "M">>) -> <<2024, 10, 1, 10, 0>>
      [] c = StrCell(<<"1", "0", "/", "1", "5", "/", "2", "3", " ",
                       "0", "9", ":", "3", "0", " ", "P", "M">>) -> <<2023, 10, 15, 21, 30>>
      [] c = StrCell(<<"0", "9", "/", "3", "0", "/", "2", "5", " ",
                       "1", "2", ":", "5", "9", " ", "A", "M">>) -> <<2025, 9, 30, 0, 59>>
      [] OTHER -> <<0>>

\* moment a is earlier than moment b
Earlier(a, b) ==
    \E k \in 1..5 : (\A i \in 1..(k - 1) : a[i] = b[i]) /\ a[k] < b[k]

\* the moments of a customer's transactions whose timestamp parses
MomentsOf(c) ==
    {MomentOf(ingested.rows[i]["Paid Date"]) : i \in TransactionsOf(c)} \ {<<0>>}

RecencyRowsOf(c) ==
    {i \in 1..Len(recency_data.rows) : recency_data.rows[i]["Customer ID"] = c}

\* C15: the recency records have at most one row per customer, and the
\* Recency of a customer with a timestamp that parses is the latest of the
\* customer's timestamps that parse
C15_LatestParsedTimestamp ==
    recency_data.set =>
        \A c \in IngestedCustomers :
            /\ Cardinality(RecencyRowsOf(c)) <= 1
            /\ MomentsOf(c) # {} =>
                  \E i \in RecencyRowsOf(c) :
                     LET latest == MomentOf(recency_data.rows[i]["Recency"])
                     IN  /\ latest \in MomentsOf(c)
                         /\ \A mo \in MomentsOf(c) : ~Earlier(latest, mo)

\* C16 as claimed: a customer none of whose timestamps parses has no row in
\* the recency records
C16_UnparseableCustomerAbsent ==
    recency_data.set =>
        \A c \in IngestedCustomers : MomentsOf(c) = {} => RecencyRowsOf(c) = {}

\* C16: a customer none of whose timestamps parses has one row in the
\* recency records, and its Recency is no timestamp
C16_UnparseableCustomerUnknown ==
    recency_data.set =>
        \A c \in IngestedCustomers :
            MomentsOf(c) = {} =>
               /\ Cardinality(RecencyRowsOf(c)) = 1
               /\ \A i \in RecencyRowsOf(c) :
                     MomentOf(recency_data.rows[i]["Recency"]) = <<0>>

\* on a parsed table, a customer with two transactions without a timestamp
\* has a row with NaT, next to a customer with a known recency
C16_Witness ==
    /\ recency_data.set
    /\ \E c, d \in IngestedCustomers :
          /\ MomentsOf(c) = {} /\ Cardinality(TransactionsOf(c)) = 2
          /\ MomentsOf(d) # {}
          /\ \E i \in RecencyRowsOf(c) : recency_data.rows[i]["Recency"] = NaTCell
          /\ \E i \in RecencyRowsOf(d) : recency_data.rows[i]["Recency"].t = "ts"

----------------------------------------------------------------------------
(* Claims about load_and_process_data (SpecLoad) *)

\* C12: when a requested worksheet cannot be fetched, the run fails towards
\* its caller and no derivation has run on the other worksheets; when
\* load_and_process_data returns normally, all_data is set and not empty
C12_FailedWorksheetFailsRun ==
    printed # "" =>
        /\ (\E i \in 1..Len(sheets) : ~sheets[i].set) =>
              /\ error # "none"
              /\ frequency_data = None /\ recency_data = None
              /\ customer_categories = None
        /\ error = "none" =>
              report_all_data.set /\ Len(report_all_data.rows) > 0

----------------------------------------------------------------------------
(* Further claims about MonetaryValue (SpecMV) *)

\* C17: customers with equal totals stand in the monetary table in the
\* order of their groups, which groupby forms in ascending Customer ID
C17_TiesKeepGroupOrder ==
    monetary_data.set =>
        \A i, j \in 1..Len(monetary_data.rows) :
            (/\ i < j
             /\ monetary_data.rows[i]["Total Monetary Value"].v
                   = monetary_data.rows[j]["Total Monetary Value"].v)
               => StrLess(monetary_data.rows[i]["Customer ID"].v,
                          monetary_data.rows[j]["Customer ID"].v)

----------------------------------------------------------------------------
(* Claims about the caller's table (SpecFR) *)

\* what a cell of a transaction says: a moment, nothing, or its raw value
Content(c) ==
    IF MomentOf(c) # <<0>> THEN [moment |-> MomentOf(c)]
    ELSE IF c.t \in {"nan", "nat"} \/ c = StrCell(<<>>) THEN [missing |-> TRUE]
    ELSE [raw |-> c]

\* C20: the timestamp, amount, payment type and card suffix of every row of
\* the table the caller passed in stay what they were when it was ingested
C20_IngestedRowsUnchanged ==
    all_data.set =>
        /\ Len(all_data.rows) = Len(ingested.rows)
        /\ \A i \in 1..Len(ingested.rows) :
              \A k \in ingested.cols
                       \cap {"Paid Date", "Amount", "Type", "Last 4 Card Digits"} :
                 Content(all_data.rows[i][k]) = Content(ingested.rows[i][k])

----------------------------------------------------------------------------
(* Claims about the two branches of a report (SpecRun) *)

\* the segment counts of the segmentation run alone on the ingested table
SegmentsAlone ==
    LET visits == calculate_monthly_visits(ingested)
    IN  categorize_customers(visits.result, calculate_recency(visits.table),
                             current_month)

\* the rows of the monetary table of a MonetaryValue built on the ingested
\* table, and of its action plan
MonetaryRowsAlone ==
    LET rows == grouped_totals(coerce_amount(ingested))
    IN  {rows[i] : i \in 1..Len(rows)}

ActionRowsAlone ==
    {r @@ ("Action" :> assign_action(Total(r))) : r \in MonetaryRowsAlone}

\* C19: the monetary table and the action labels are those of the ingested
\* table whether or not the segmentation has run on it, and the segment
\* counts are those of the ingested table whether or not a MonetaryValue
\* was built, scored and planned before
C19_BranchesIndependent ==
    /\ monetary_data.set =>
          {monetary_data.rows[i] : i \in 1..Len(monetary_data.rows)} = MonetaryRowsAlone
    /\ action_plan.set =>
          {action_plan.rows[i] : i \in 1..Len(action_plan.rows)} = ActionRowsAlone
    /\ customer_categories.set => customer_categories = SegmentsAlone

\* a MonetaryValue built after the segmentation parsed the table (its copy
\* has the Month column), on a table with a timestamp that does not parse,
\* with both branches finished
C19_Witness ==
    /\ monetary_data.set /\ action_plan.set /\ customer_categories.set
    /\ "Month" \in mv_all_data.cols
    /\ \E i \in 1..Len(mv_all_data.rows) : mv_all_data.rows[i]["Paid Date"] = NaTCell
    /\ Len(monetary_data.rows) = 2

----------------------------------------------------------------------------
(* Claims about the order of the transaction rows (SpecSum) *)

RowOrders(n) == {f \in [1..n -> 1..n] : \A i, j \in 1..n : i # j => f[i] # f[j]}

\* the table with its rows in the order f
Permuted(df, f) == DataFrame(df.cols, [i \in 1..Len(df.rows) |-> df.rows[f[i]]])

\* C18: after calculate_monetary_value, each customer's total is the total
\* that every permutation of the input transaction rows gives
C18_TotalSameForEveryPermutation ==
    monetary_data.set =>
        \A f \in RowOrders(Len(ingested.rows)) :
            LET totals == grouped_totals_float64(Permuted(ingested, f))
            IN  \A g \in 1..Len(totals) :
                    \E i \in 1..Len(monetary_data.rows) : monetary_data.rows[i] = totals[g]

----------------------------------------------------------------------------
(* Claims about the fields of a MonetaryValue object over its calls (SpecMV) *)

\* C21: whatever calls were made, an action plan implies a monetary table,
\* and the plan has the customers and totals of the monetary table in the
\* same order; generate_action_plan leaves monetary_data as it is; and
\* visualize_action_plans without an action plan fails with the error that
\* names the missing step, changing nothing else
C21_ActionPlanFollowsMonetaryData ==
    /\ [](action_plan.set =>
            /\ monetary_data.set
            /\ Len(action_plan.rows) = Len(monetary_data.rows)
            /\ \A i \in 1..Len(action_plan.rows) :
                  /\ action_plan.rows[i]["Customer ID"] = monetary_data.rows[i]["Customer ID"]
                  /\ action_plan.rows[i]["Total Monetary Value"]
                        = monetary_data.rows[i]["Total Monetary Value"])
    /\ [][GenerateActionPlan => monetary_data' = monetary_data]_vars
    /\ [][VisualizeActionPlans /\ ~action_plan.set =>
            /\ error' = ValueErrorNoActionPlan
            /\ UNCHANGED <<mv_all_data, monetary_data, action_plan>>]_vars

\* an action plan for two customers with different totals, after a failed
\* call and a top-customer query
C21_Witness ==
    /\ action_plan.set /\ top_customers.set
    /\ Len(action_plan.rows) = 2
    /\ Total(action_plan.rows[1]) # Total(action_plan.rows[2])
    /\ error = "none"

----------------------------------------------------------------------------
(* Claims about the table FrequencyRecency.main leaves (SpecLoad) *)

\* C22: when main has returned, all_data is unset or every row of it has a
\* Customer ID
C22_AllDataUnsetOrResolved ==
    printed # "" =>
        \/ all_data = None
        \/ \A i \in 1..Len(all_data.rows) :
              /\ "Customer ID" \in DOMAIN all_data.rows[i]
              /\ all_data.rows[i]["Customer ID"].t = "str"

----------------------------------------------------------------------------
(* Claims about the order of the steps of a run (SpecPipe) *)

\* the sequence a starts with the sequence b
StartsWith(a, b) == Len(a) >= Len(b) /\ SubSeq(a, 1, Len(b)) = b

\* C23: in a run, identities are built while every Paid Date is still the
\* string the sheet gave, and a composite identity starts with that string;
\* timestamps are parsed only on a table that has its Customer ID; and
\* calculate_recency reads a Paid Date column that has been parsed, its
\* result for a customer with a timestamp that parses being the latest of
\* the customer's parsed timestamps
C23_IdentityThenParsingThenRecency ==
    /\ [][CreateCustomerIdStep =>
            /\ all_data = concat(sheets)
            /\ \A i \in 1..Len(all_data.rows) : all_data.rows[i]["Paid Date"].t = "str"
            /\ all_data'.set /\ "Customer ID" \in all_data'.cols =>
                  \A i \in 1..Len(all_data'.rows) :
                     \/ all_data'.rows[i]["Customer ID"] = StrCell(<<"1", "2">>)
                     \/ StartsWith(all_data'.rows[i]["Customer ID"].v,
                                   all_data.rows[i]["Paid Date"].v \o <<"|">>)]_vars
    /\ [][VisitsStep => "Customer ID" \in all_data.cols]_vars
    /\ [][RecencyStep =>
            /\ is_datetime(all_data, "Paid Date")
            /\ recency_data'.set
            /\ \A c \in IngestedCustomers :
                  MomentsOf(c) # {} =>
                     \E i \in 1..Len(recency_data'.rows) :
                        /\ recency_data'.rows[i]["Customer ID"] = c
                        /\ MomentOf(recency_data'.rows[i]["Recency"]) \in MomentsOf(c)
                        /\ \A mo \in MomentsOf(c) :
                              ~Earlier(MomentOf(recency_data'.rows[i]["Recency"]), mo)]_vars

\* a finished run in which customer 12 has a transaction in October 2024
\* and a later one in September 2025, next to a customer with a composite
\* identity
C23_Witness ==
    /\ pc = "done"
    /\ \E c \in IngestedCustomers :
          /\ c = StrCell(<<"1", "2">>)
          /\ MomentsOf(c) = {<<2024, 10, 1, 10, 0>>, <<2025, 9, 30, 0, 59>>}
          /\ \E i \in RecencyRowsOf(c) :
                MomentOf(recency_data.rows[i]["Recency"]) = <<2025, 9, 30, 0, 59>>

----------------------------------------------------------------------------
(* Claims about repeated derivation on the same table (SpecRun) *)

\* C24: a segmentation of a table that an earlier segmentation has
\* processed gives the visit records, recency records and segment counts
\* of the earlier one; calculate_monetary_value called again on the same
\* object gives the same monetary table, and generate_action_plan called
\* again the same action plan
C24_RederivingIsIdempotent ==
    /\ [][(customer_categories.set /\ SegmentCustomers) =>
            /\ frequency_data' = frequency_data
            /\ recency_data' = recency_data
            /\ customer_categories' = customer_categories
            /\ error' = "none"]_vars
    /\ [][(monetary_data.set /\ CalculateMonetaryValue) =>
            monetary_data' = monetary_data]_vars
    /\ [][(action_plan.set /\ GenerateActionPlan) => action_plan' = action_plan]_vars

\* the state the repeated calls act on: a table that a segmentation has
\* parsed, with a timestamp that did not parse and two visit records, and
\* a MonetaryValue that has its totals and its action plan for two
\* customers
C24_Witness ==
    /\ customer_categories.set /\ frequency_data.set /\ recency_data.set
    /\ "Month" \in all_data.cols
    /\ \E i \in 1..Len(all_data.rows) : all_data.rows[i]["Paid Date"] = NaTCell
    /\ Len(frequency_data.rows) >= 1
    /\ monetary_data.set /\ action_plan.set
    /\ Len(action_plan.rows) = 2

====
